---------------------------- MODULE Spec2Model ----------------------------
(***************************************************************************)
(* The metadata address codec of x/metadata/types (MetadataAddress): the   *)
(* typed binary address, its bech32 text form, the derivation functions    *)
(* and the iterator prefixes.                                              *)
(*                                                                         *)
(* Bytes are naturals in 0..255, byte slices are sequences of bytes, and   *)
(* Go strings are sequences of one-character strings, so that trimming,    *)
(* lower-casing and the bech32 encoding work on characters as the code     *)
(* does.  A call is one action: it reads the address in hand (ma), records *)
(* its arguments in args and what it returned in ret.                      *)
(***************************************************************************)
EXTENDS Integers, Sequences, FiniteSets

VARIABLES
  ma,      \* the MetadataAddress in hand: the bytes up to its length
  spare,   \* the bytes of ma's backing array between its length and its capacity
  origin,  \* how ma was made: "raw" bytes, or the constructor that built it
  pc,      \* "ready": no call made on ma yet; "done": the call has returned
  op,      \* the last function called
  args,    \* its arguments
  ret,     \* what it returned
  links,   \* the AccMDLinks in hand: a list of entries
  keys,    \* the package's key prefix variables: the bytes each one holds
  conf     \* the config command: its arguments, the files and its outcome

vars == <<ma, spare, origin, pc, op, args, ret, links, keys, conf>>

---------------------------------------------------------------------------
(* Bounds of the model *)

\* number of distinct 16-byte contents tried in every UUID or hash slot
NumPatterns == 2
\* number of type bytes tried beyond the six known ones
NumUnknownTags == 1
\* raw inputs have every length within Slack of 0, 17 and 33
Slack == 1
\* the longest list of links
MaxLinks == 3
\* the most key/value pairs given to the config set command
MaxPairs == 2

---------------------------------------------------------------------------
(* Characters and strings *)

LowerChars == <<"a","b","c","d","e","f","g","h","i","j","k","l","m",
                "n","o","p","q","r","s","t","u","v","w","x","y","z">>
UpperChars == <<"A","B","C","D","E","F","G","H","I","J","K","L","M",
                "N","O","P","Q","R","S","T","U","V","W","X","Y","Z">>
DigitChars == <<"0","1","2","3","4","5","6","7","8","9">>
WhiteSpace == {" ", "\t", "\n", "\r"}

LowerSet == {LowerChars[i] : i \in 1..26}
UpperSet == {UpperChars[i] : i \in 1..26}
DigitSet == {DigitChars[i] : i \in 1..10}
IsLower(c) == c \in LowerSet
IsUpper(c) == c \in UpperSet
IsDigit(c) == c \in DigitSet

\* strings.ToLower, on the ASCII strings of the model
ToLowerChar(c) == IF IsUpper(c) THEN LowerChars[CHOOSE i \in 1..26 : UpperChars[i] = c] ELSE c
ToLower(s) == [i \in 1..Len(s) |-> ToLowerChar(s[i])]
ToUpperChar(c) == IF IsLower(c) THEN UpperChars[CHOOSE i \in 1..26 : LowerChars[i] = c] ELSE c
ToUpper(s) == [i \in 1..Len(s) |-> ToUpperChar(s[i])]

\* strings.TrimSpace
TrimSpace(s) ==
  LET keep == {i \in 1..Len(s) : s[i] \notin WhiteSpace}
  IN IF keep = {} THEN <<>>
     ELSE SubSeq(s, CHOOSE i \in keep : \A j \in keep : i <= j,
                    CHOOSE i \in keep : \A j \in keep : j <= i)

---------------------------------------------------------------------------
(* Constants of the package *)

PrefixScope == <<"s","c","o","p","e">>
PrefixSession == <<"s","e","s","s","i","o","n">>
PrefixRecord == <<"r","e","c","o","r","d">>
PrefixScopeSpecification == <<"s","c","o","p","e","s","p","e","c">>
PrefixContractSpecification == <<"c","o","n","t","r","a","c","t","s","p","e","c">>
PrefixRecordSpecification == <<"r","e","c","s","p","e","c">>
DenomPrefix == <<"n","f","t","/">>

\* The key prefixes: one-byte slices, one distinct type byte each.
ScopeKeyPrefix == <<0>>
SessionKeyPrefix == <<1>>
RecordKeyPrefix == <<2>>
ContractSpecificationKeyPrefix == <<3>>
ScopeSpecificationKeyPrefix == <<4>>
RecordSpecificationKeyPrefix == <<5>>

\* The six key prefix variables by name.
PackageKeys ==
  [Scope |-> ScopeKeyPrefix, Session |-> SessionKeyPrefix, Record |-> RecordKeyPrefix,
   ContractSpecification |-> ContractSpecificationKeyPrefix,
   ScopeSpecification |-> ScopeSpecificationKeyPrefix,
   RecordSpecification |-> RecordSpecificationKeyPrefix]

KnownTags == {ScopeKeyPrefix[1], SessionKeyPrefix[1], RecordKeyPrefix[1],
              ContractSpecificationKeyPrefix[1], ScopeSpecificationKeyPrefix[1],
              RecordSpecificationKeyPrefix[1]}

\* Error kinds: "" is Go's nil error.
NoErr == ""

---------------------------------------------------------------------------
(* uuid and sha256 *)

\* uuid.FromBytes: fails exactly when the slice is not 16 bytes long.
FromBytes(b) == IF Len(b) # 16 THEN [uuid |-> <<>>, err |-> "MalformedUUID"]
                ELSE [uuid |-> b, err |-> NoErr]

\* sha256.Sum256(name)[0:16] for the names of the model.
Sum256First16(name) ==
  CASE name = <<>> -> <<227,176,196,66,152,252,28,20,154,251,244,200,153,111,185,36>>
    [] name = <<" ">> -> <<54,169,231,241,201,91,130,255,185,151,67,224,197,196,206,149>>
    [] name = <<"f","o","o">> -> <<44,38,180,107,104,255,198,143,249,155,69,60,29,48,65,52>>
    [] name = <<"F","o","o">> -> <<28,190,199,55,248,99,228,146,44,238,99,204,46,187,250,175>>
    [] name = <<" ","f","o","o"," ">> -> <<133,238,219,189,86,173,99,127,150,179,72,52,18,50,119,205>>
    [] name = <<"F","O","O">> -> <<149,32,67,124,232,144,46,179,121,167,216,170,169,143,196,201>>
    [] name = <<"b","a","r">> -> <<252,222,43,46,219,165,107,244,8,96,31,183,33,254,155,92>>

---------------------------------------------------------------------------
(* Verification of the byte format *)

\* The hrp switch with the two specification prefixes exchanged.
HrpOfTagSpecsSwapped(t) ==
  CASE t = ScopeKeyPrefix[1] -> PrefixScope
    [] t = SessionKeyPrefix[1] -> PrefixSession
    [] t = RecordKeyPrefix[1] -> PrefixRecord
    [] t = ScopeSpecificationKeyPrefix[1] -> PrefixContractSpecification
    [] t = ContractSpecificationKeyPrefix[1] -> PrefixScopeSpecification
    [] t = RecordSpecificationKeyPrefix[1] -> PrefixRecordSpecification
    [] OTHER -> <<>>

\* the hrp the switch on bz[0] sets ("" in its default case)
HrpOfTag(t) ==
  CASE t = ScopeKeyPrefix[1] -> PrefixScope
    [] t = SessionKeyPrefix[1] -> PrefixSession
    [] t = RecordKeyPrefix[1] -> PrefixRecord
    [] t = ScopeSpecificationKeyPrefix[1] -> PrefixScopeSpecification
    [] t = ContractSpecificationKeyPrefix[1] -> PrefixContractSpecification
    [] t = RecordSpecificationKeyPrefix[1] -> PrefixRecordSpecification
    [] OTHER -> <<>>

\* The length switch with a record taken for a one-UUID address.
RequiredLengthRecordAsOneUUID(t) ==
  CASE t = ScopeKeyPrefix[1] -> 1 + 16
    [] t = SessionKeyPrefix[1] -> 1 + 16 + 16
    [] t = RecordKeyPrefix[1] -> 1 + 16
    [] t = ScopeSpecificationKeyPrefix[1] -> 1 + 16
    [] t = ContractSpecificationKeyPrefix[1] -> 1 + 16
    [] t = RecordSpecificationKeyPrefix[1] -> 1 + 16 + 16
    [] OTHER -> 0

\* the requiredLength the switch on bz[0] sets
RequiredLength(t) ==
  CASE t = ScopeKeyPrefix[1] -> 1 + 16
    [] t = SessionKeyPrefix[1] -> 1 + 16 + 16
    [] t = RecordKeyPrefix[1] -> 1 + 16 + 16
    [] t = ScopeSpecificationKeyPrefix[1] -> 1 + 16
    [] t = ContractSpecificationKeyPrefix[1] -> 1 + 16
    [] t = RecordSpecificationKeyPrefix[1] -> 1 + 16 + 16
    [] OTHER -> 0

VerifyMetadataAddressFormat(bz) ==
  IF Len(bz) = 0 THEN [hrp |-> <<>>, err |-> "Empty"]
  ELSE
    LET hrp == HrpOfTag(bz[1])
        checkSecondaryUUID == bz[1] = SessionKeyPrefix[1]
    IN IF bz[1] \notin KnownTags THEN [hrp |-> hrp, err |-> "UnknownType"]
       ELSE IF Len(bz) # RequiredLength(bz[1]) THEN [hrp |-> hrp, err |-> "LengthMismatch"]
       ELSE IF FromBytes(SubSeq(bz, 2, 17)).err # NoErr THEN [hrp |-> hrp, err |-> "MalformedUUID"]
       ELSE IF checkSecondaryUUID /\ FromBytes(SubSeq(bz, 18, 33)).err # NoErr
            THEN [hrp |-> hrp, err |-> "MalformedUUID"]
       ELSE [hrp |-> hrp, err |-> NoErr]

\* MetadataAddress.Validate
Validate(a) == VerifyMetadataAddressFormat(a).err

---------------------------------------------------------------------------
(* Constructors.  A uuid.UUID is 16 bytes and its MarshalBinary never      *)
(* fails; each result is [val, panic]: panic is Go's panic(...).           *)

Built(v) == [val |-> v, panic |-> FALSE]
Panicked == [val |-> <<>>, panic |-> TRUE]

\* The normalisation without its ToLower.
NormalizeNameTrimOnly(name) == TrimSpace(name)

\* name = strings.ToLower(strings.TrimSpace(name))
NormalizeName(name) == ToLower(TrimSpace(name))

ScopeMetadataAddress(scopeUUID) == Built(ScopeKeyPrefix \o scopeUUID)

\* The session constructor leaving the scope UUID out.
SessionMetadataAddressWithoutScope(scopeUUID, sessionUUID) ==
  Built(SessionKeyPrefix \o sessionUUID)

SessionMetadataAddress(scopeUUID, sessionUUID) ==
  Built((SessionKeyPrefix \o scopeUUID) \o sessionUUID)

RecordMetadataAddress(scopeUUID, name) ==
  LET addr == RecordKeyPrefix \o scopeUUID
      n == NormalizeName(name)
  IN IF Len(n) < 1 THEN Panicked
     ELSE Built(addr \o Sum256First16(n))

ScopeSpecMetadataAddress(specUUID) == Built(ScopeSpecificationKeyPrefix \o specUUID)

ContractSpecMetadataAddress(specUUID) == Built(ContractSpecificationKeyPrefix \o specUUID)

RecordSpecMetadataAddress(contractSpecUUID, name) ==
  LET addr == RecordSpecificationKeyPrefix \o contractSpecUUID
      n == NormalizeName(name)
  IN IF Len(n) < 1 THEN Panicked
     ELSE Built(addr \o Sum256First16(n))

---------------------------------------------------------------------------
(* Components of an address *)

\* isTypeOneOf: the first byte equals the first byte of one of the options.
isTypeOneOf(a, options) ==
  IF Len(a) = 0 THEN FALSE
  ELSE \E o \in options : Len(o) > 0 /\ a[1] = o[1]

AllKeyPrefixes == {ScopeKeyPrefix, SessionKeyPrefix, RecordKeyPrefix,
                   ScopeSpecificationKeyPrefix, ContractSpecificationKeyPrefix,
                   RecordSpecificationKeyPrefix}

\* PrimaryUUID slicing a[0:16] in place of a[1:17].
PrimaryUUIDFromTagByte(a) ==
  IF Len(a) < 1 THEN [uuid |-> <<>>, err |-> "Empty"]
  ELSE IF ~isTypeOneOf(a, AllKeyPrefixes) THEN [uuid |-> <<>>, err |-> "UnknownType"]
  ELSE IF Len(a) < 17 THEN [uuid |-> <<>>, err |-> "LengthMismatch"]
  ELSE FromBytes(SubSeq(a, 1, 16))

PrimaryUUID(a) ==
  IF Len(a) < 1 THEN [uuid |-> <<>>, err |-> "Empty"]
  ELSE IF ~isTypeOneOf(a, AllKeyPrefixes) THEN [uuid |-> <<>>, err |-> "UnknownType"]
  ELSE IF Len(a) < 17 THEN [uuid |-> <<>>, err |-> "LengthMismatch"]
  ELSE FromBytes(SubSeq(a, 2, 17))

\* ScopeUUID without its type check.
ScopeUUIDOfAnyType(a) == PrimaryUUID(a)

ScopeUUID(a) ==
  IF ~isTypeOneOf(a, {ScopeKeyPrefix, SessionKeyPrefix, RecordKeyPrefix})
  THEN [uuid |-> <<>>, err |-> "WrongType"]
  ELSE PrimaryUUID(a)

ContractSpecUUID(a) ==
  IF ~isTypeOneOf(a, {ContractSpecificationKeyPrefix, RecordSpecificationKeyPrefix})
  THEN [uuid |-> <<>>, err |-> "WrongType"]
  ELSE PrimaryUUID(a)

---------------------------------------------------------------------------
(* Derivation: each result is [val, err, panic] *)

Failed(e) == [val |-> <<>>, err |-> e, panic |-> FALSE]
Derived(b) == [val |-> b.val, err |-> NoErr, panic |-> b.panic]

AsScopeAddress(a) ==
  LET u == ScopeUUID(a)
  IN IF u.err # NoErr THEN Failed(u.err)
     ELSE Derived(ScopeMetadataAddress(u.uuid))

AsSessionAddress(a, sessionUUID) ==
  LET u == ScopeUUID(a)
  IN IF u.err # NoErr THEN Failed(u.err)
     ELSE Derived(SessionMetadataAddress(u.uuid, sessionUUID))

AsRecordAddress(a, name) ==
  LET u == ScopeUUID(a)
  IN IF u.err # NoErr THEN Failed(u.err)
     ELSE IF Len(name) = 0 THEN Failed("InvalidInput")
     ELSE Derived(RecordMetadataAddress(u.uuid, name))

AsRecordSpecAddress(a, name) ==
  LET u == ContractSpecUUID(a)
  IN IF u.err # NoErr THEN Failed(u.err)
     ELSE Derived(RecordSpecMetadataAddress(u.uuid, name))

AsContractSpecAddress(a) ==
  LET u == ContractSpecUUID(a)
  IN IF u.err # NoErr THEN Failed(u.err)
     ELSE Derived(ContractSpecMetadataAddress(u.uuid))

\* The Must... functions: [val, panic].  panic(err) when the counterpart
\* returns an error; a panic inside the counterpart passes through.
MustGet(r) ==
  IF r.panic \/ r.err # NoErr THEN Panicked ELSE Built(r.val)

MustGetAsScopeAddress(a) == MustGet(AsScopeAddress(a))

MustGetAsSessionAddress(a, sessionUUID) == MustGet(AsSessionAddress(a, sessionUUID))

MustGetAsRecordAddress(a, name) == MustGet(AsRecordAddress(a, name))

MustGetAsRecordSpecAddress(a, name) == MustGet(AsRecordSpecAddress(a, name))

MustGetAsContractSpecAddress(a) == MustGet(AsContractSpecAddress(a))

---------------------------------------------------------------------------
(* Iterator prefixes *)

\* The slice expression a[1:17]: Go allows a high bound up to the capacity
\* of a, beyond its length, and panics past the capacity.
SliceOneToSeventeen(a, sp) ==
  IF Len(a) + Len(sp) < 17 THEN Panicked
  ELSE Built(SubSeq(a \o sp, 2, 17))

\* The prefix functions answering the key prefix alone for every address.
IteratorPrefixOfAllChildren(a, sp, keyPrefix, options) ==
  IF Len(a) < 1 THEN [val |-> keyPrefix, err |-> NoErr, panic |-> FALSE]
  ELSE IF ~isTypeOneOf(a, options) THEN Failed("WrongType")
  ELSE [val |-> keyPrefix, err |-> NoErr, panic |-> FALSE]

IteratorPrefix(a, sp, keyPrefix, options) ==
  IF Len(a) < 1 THEN [val |-> keyPrefix, err |-> NoErr, panic |-> FALSE]
  ELSE IF ~isTypeOneOf(a, options) THEN Failed("WrongType")
  ELSE LET s == SliceOneToSeventeen(a, sp)
       IN IF s.panic THEN [val |-> <<>>, err |-> NoErr, panic |-> TRUE]
          ELSE [val |-> keyPrefix \o s.val, err |-> NoErr, panic |-> FALSE]

\* ScopeSessionIteratorPrefix appending to the record key prefix.
ScopeSessionIteratorPrefixRecordKey(a, sp) ==
  IteratorPrefix(a, sp, RecordKeyPrefix, {ScopeKeyPrefix, SessionKeyPrefix, RecordKeyPrefix})

ScopeSessionIteratorPrefix(a, sp) ==
  IteratorPrefix(a, sp, SessionKeyPrefix, {ScopeKeyPrefix, SessionKeyPrefix, RecordKeyPrefix})

ScopeRecordIteratorPrefix(a, sp) ==
  IteratorPrefix(a, sp, RecordKeyPrefix, {ScopeKeyPrefix, SessionKeyPrefix, RecordKeyPrefix})

ContractSpecRecordSpecIteratorPrefix(a, sp) ==
  IteratorPrefix(a, sp, RecordSpecificationKeyPrefix,
                 {ContractSpecificationKeyPrefix, RecordSpecificationKeyPrefix})

---------------------------------------------------------------------------
(* bech32 (github.com/cosmos/cosmos-sdk/types/bech32 over btcutil/bech32) *)

Charset == <<"q","p","z","r","y","9","x","8","g","f","2","t","v","d","w","0",
             "s","3","j","n","5","4","k","h","c","e","6","m","u","a","7","l">>

\* The byte of an ASCII character of the model's strings.
Ascii(c) ==
  CASE IsLower(c) -> 96 + (CHOOSE i \in 1..26 : LowerChars[i] = c)
    [] IsUpper(c) -> 64 + (CHOOSE i \in 1..26 : UpperChars[i] = c)
    [] IsDigit(c) -> 47 + (CHOOSE i \in 1..10 : DigitChars[i] = c)
    [] c = "/" -> 47
    [] c = " " -> 32

RECURSIVE XorBits(_, _)
XorBits(a, b) == IF a = 0 THEN b ELSE IF b = 0 THEN a
                 ELSE ((a + b) % 2) + 2 * XorBits(a \div 2, b \div 2)

\* a ^ b on two 5-bit digits, tabulated
Xor5 == [a \in 1..32 |-> [b \in 1..32 |-> XorBits(a - 1, b - 1)] \o <<>>] \o <<>>

\* a ^ b for a, b < 2^30, five bits at a time
Xor(a, b) ==
  Xor5[(a % 32) + 1][(b % 32) + 1]
    + (32 * Xor5[((a \div 32) % 32) + 1][((b \div 32) % 32) + 1])
    + (1024 * Xor5[((a \div 1024) % 32) + 1][((b \div 1024) % 32) + 1])
    + (32768 * Xor5[((a \div 32768) % 32) + 1][((b \div 32768) % 32) + 1])
    + (1048576 * Xor5[((a \div 1048576) % 32) + 1][((b \div 1048576) % 32) + 1])
    + (33554432 * Xor5[((a \div 33554432) % 32) + 1][((b \div 33554432) % 32) + 1])

\* the generator: 0x3b6a57b2, 0x26508e6d, 0x1ea119fa, 0x3d4233dd, 0x2a1462b3
Gen == <<996825010, 642813549, 513874426, 1027748829, 705979059>>

\* for i in 0..4: if (b>>i)&1 == 1 { chk ^= gen[i] }
RECURSIVE GenXor(_, _, _)
GenXor(chk, b, i) ==
  IF i > 5 THEN chk
  ELSE GenXor(IF (b \div (2^(i - 1))) % 2 = 1 THEN Xor(chk, Gen[i]) ELSE chk, b, i + 1)

\* GenXor(0, b, 1) for each top digit b, tabulated
GenTable == [b \in 1..32 |-> GenXor(0, b - 1, 1)] \o <<>>

\* b := chk >> 25; chk = (chk & 0x1ffffff) << 5 ^ v; then the generator
PolymodStep(chk, v) ==
  IF chk < 33554432 THEN (chk * 32) + v
  ELSE Xor(((chk % 33554432) * 32) + v, GenTable[(chk \div 33554432) + 1])

\* the loop of bech32Polymod over values[lo..hi], halved so that each half
\* is evaluated before the next starts
RECURSIVE PolymodRange(_, _, _, _)
PolymodRange(chk, values, lo, hi) ==
  IF lo > hi THEN chk
  ELSE IF lo = hi THEN PolymodStep(chk, values[lo])
  ELSE LET mid == (lo + hi) \div 2
       IN CHOOSE r \in {PolymodRange(m, values, mid + 1, hi) :
                          m \in {PolymodRange(chk, values, lo, mid)}} : TRUE

Polymod(values) ==
  CHOOSE r \in {PolymodRange(1, v, 1, Len(v)) : v \in {values}} : TRUE

HrpExpand(hrp) ==
  ([i \in 1..Len(hrp) |-> Ascii(hrp[i]) \div 32] \o <<0>>)
    \o [i \in 1..Len(hrp) |-> Ascii(hrp[i]) % 32]

\* (A value used several times is bound by x \in {e}, which evaluates e once.)
CreateChecksum(hrp, data) ==
  CHOOSE r \in {[i \in 1..6 |-> (pm \div (2^(5 * (6 - i)))) % 32] \o <<>> :
                 pm \in {Xor(Polymod((HrpExpand(hrp) \o data) \o <<0, 0, 0, 0, 0, 0>>), 1)}} : TRUE

VerifyChecksum(hrp, data) == Polymod(HrpExpand(hrp) \o data) = 1

\* bit j (from 1, most significant first) of a sequence of w-bit groups
BitOf(groups, w, j) ==
  (groups[((j - 1) \div w) + 1] \div (2^((w - 1) - ((j - 1) % w)))) % 2

\* ConvertBits(data, 8, 5, true): pads the last group with zero bits
ConvertBits8To5(data) ==
  LET nbits == 8 * Len(data)
      B(j) == IF j > nbits THEN 0 ELSE BitOf(data, 8, j)
  IN [g \in 1..((nbits + 4) \div 5) |->
        (16 * B((5 * g) - 4)) + (8 * B((5 * g) - 3)) + (4 * B((5 * g) - 2))
          + (2 * B((5 * g) - 1)) + B(5 * g)] \o <<>>

\* ConvertBits(data, 5, 8, false): the left-over bits must be fewer than 5
\* and all zero
ConvertBits5To8(data) ==
  LET nbits == 5 * Len(data)
      n == nbits \div 8
      B(j) == BitOf(data, 5, j)
      bytes == [g \in 1..n |->
                 (128 * B((8 * g) - 7)) + (64 * B((8 * g) - 6)) + (32 * B((8 * g) - 5))
                   + (16 * B((8 * g) - 4)) + (8 * B((8 * g) - 3)) + (4 * B((8 * g) - 2))
                   + (2 * B((8 * g) - 1)) + B(8 * g)] \o <<>>
  IN IF nbits - (8 * n) >= 5 \/ \E j \in ((8 * n) + 1)..nbits : B(j) = 1
     THEN [data |-> <<>>, err |-> "DecodeError"]
     ELSE [data |-> bytes, err |-> NoErr]

\* bech32.ConvertAndEncode(hrp, data)
ConvertAndEncode(hrp, data) ==
  CHOOSE r \in {(hrp \o <<"1">>) \o [i \in 1..Len(comb) |-> Charset[comb[i] + 1]] :
                 comb \in {conv \o CreateChecksum(hrp, conv) :
                             conv \in {ConvertBits8To5(data)}}} : TRUE

CharsetSet == {Charset[i] : i \in 1..32}
InCharset(c) == c \in CharsetSet
CharsetIndex(c) == (CHOOSE i \in 1..32 : Charset[i] = c) - 1

\* bech32.Decode from the separator on: the data characters, the checksum,
\* and the conversion to bytes
DecodeData(hrp, chars) ==
  LET bad == [hrp |-> <<>>, data |-> <<>>, err |-> "DecodeError"]
  IN IF \E i \in 1..Len(chars) : ~InCharset(chars[i]) THEN bad
     ELSE CHOOSE r \in
            {IF ~VerifyChecksum(hrp, decoded) THEN bad
             ELSE CHOOSE q \in
                    {IF conv.err # NoErr THEN bad
                     ELSE [hrp |-> hrp, data |-> conv.data, err |-> NoErr] :
                       conv \in {ConvertBits5To8(SubSeq(decoded, 1, Len(decoded) - 6))}} : TRUE :
               decoded \in {[i \in 1..Len(chars) |-> CharsetIndex(chars[i])] \o <<>>}} : TRUE

\* bech32.DecodeAndConvert(bech): [hrp, data, err]
DecodeAndConvert(text) ==
  LET bad == [hrp |-> <<>>, data |-> <<>>, err |-> "DecodeError"]
      ones == {i \in 1..Len(text) : text[i] = "1"}
      one == CHOOSE i \in ones : \A j \in ones : j <= i
  IN IF Len(text) < 8 \/ Len(text) > 1023 THEN bad
     ELSE IF \E i \in 1..Len(text) : text[i] \in WhiteSpace THEN bad
     ELSE IF (\E i \in 1..Len(text) : IsLower(text[i]))
               /\ (\E i \in 1..Len(text) : IsUpper(text[i])) THEN bad
     ELSE IF ones = {} THEN bad
     ELSE IF one < 2 \/ one + 6 > Len(text) THEN bad
     ELSE CHOOSE r \in
            {DecodeData(SubSeq(lower, 1, k - 1), SubSeq(lower, k + 1, Len(lower))) :
               lower \in {ToLower(text) \o <<>>}, k \in {one}} : TRUE

---------------------------------------------------------------------------
(* Text forms *)

\* MetadataAddress.Empty: nil or of length zero
Empty(a) == Len(a) = 0

HexDigits == <<"0","1","2","3","4","5","6","7","8","9","a","b","c","d","e","f">>
\* a byte under %#v: 0x and its hex digits without a leading zero
GoByte(b) == <<"0", "x">> \o (IF b < 16 THEN <<>> ELSE <<HexDigits[(b \div 16) + 1]>>)
               \o <<HexDigits[(b % 16) + 1]>>

RECURSIVE GoBytes(_, _)
GoBytes(a, i) ==
  IF i > Len(a) THEN <<>>
  ELSE ((IF i > 1 THEN <<",", " ">> ELSE <<>>) \o GoByte(a[i])) \o GoBytes(a, i + 1)

\* fmt.Sprintf("%#v", ma), by MetadataAddress.Format: MetadataAddress{0x0, 0x1f}
GoString(a) ==
  (<<"M","e","t","a","d","a","t","a","A","d","d","r","e","s","s","{">> \o GoBytes(a, 1))
    \o <<"}">>

\* String encoding every valid address under the scope prefix.
StringUnderScopePrefix(a) ==
  IF Empty(a) THEN <<>>
  ELSE LET v == VerifyMetadataAddressFormat(a)
       IN IF v.err # NoErr THEN GoString(a)
          ELSE ConvertAndEncode(PrefixScope, a)

\* String answering the empty string for an address that does not verify.
StringWithoutFallback(a) ==
  IF Empty(a) THEN <<>>
  ELSE LET v == VerifyMetadataAddressFormat(a)
       IN IF v.err # NoErr THEN <<>>
          ELSE ConvertAndEncode(v.hrp, a)

\* MetadataAddress.String
String(a) ==
  IF Empty(a) THEN <<>>
  ELSE LET v == VerifyMetadataAddressFormat(a)
       IN IF v.err # NoErr THEN GoString(a)
          ELSE ConvertAndEncode(v.hrp, a)

\* ParseMetadataAddressFromBech32 without the comparison of the two hrps.
ParseWithoutPrefixCheck(address) ==
  IF Len(TrimSpace(address)) = 0 THEN [val |-> <<>>, hrp |-> <<>>, err |-> "EmptyInput"]
  ELSE CHOOSE r \in
         {IF d.err # NoErr THEN [val |-> <<>>, hrp |-> <<>>, err |-> d.err]
          ELSE LET v == VerifyMetadataAddressFormat(d.data)
               IN IF v.err # NoErr THEN [val |-> <<>>, hrp |-> <<>>, err |-> v.err]
                  ELSE [val |-> d.data, hrp |-> d.hrp, err |-> NoErr] :
            d \in {DecodeAndConvert(address)}} : TRUE

ParseMetadataAddressFromBech32(address) ==
  IF Len(TrimSpace(address)) = 0 THEN [val |-> <<>>, hrp |-> <<>>, err |-> "EmptyInput"]
  ELSE CHOOSE r \in
         {IF d.err # NoErr THEN [val |-> <<>>, hrp |-> <<>>, err |-> d.err]
          ELSE LET v == VerifyMetadataAddressFormat(d.data)
               IN IF v.err # NoErr THEN [val |-> <<>>, hrp |-> <<>>, err |-> v.err]
                  ELSE IF v.hrp # d.hrp
                       THEN [val |-> <<>>, hrp |-> <<>>, err |-> "PrefixMismatch"]
                  ELSE [val |-> d.data, hrp |-> d.hrp, err |-> NoErr] :
            d \in {DecodeAndConvert(address)}} : TRUE

---------------------------------------------------------------------------
(* Hex, base64 and UUID text (encoding/hex, encoding/base64, uuid.String) *)

RECURSIVE EncodeToString(_)
\* hex.EncodeToString: two lower-case hex digits per byte
EncodeToString(b) ==
  IF Len(b) = 0 THEN <<>>
  ELSE <<HexDigits[(b[1] \div 16) + 1], HexDigits[(b[1] % 16) + 1]>>
         \o EncodeToString(SubSeq(b, 2, Len(b)))

\* uuid.UUID.String: xxxxxxxx-xxxx-xxxx-xxxx-xxxxxxxxxxxx
UUIDString(u) ==
  EncodeToString(SubSeq(u, 1, 4)) \o <<"-">> \o EncodeToString(SubSeq(u, 5, 6)) \o <<"-">>
    \o EncodeToString(SubSeq(u, 7, 8)) \o <<"-">> \o EncodeToString(SubSeq(u, 9, 10))
    \o <<"-">> \o EncodeToString(SubSeq(u, 11, 16))

\* The alphabet of base64.StdEncoding; its padding character is "=".
StdAlphabet == ((UpperChars \o LowerChars) \o DigitChars) \o <<"+", "/">>
StdAlphabetSet == {StdAlphabet[i] : i \in 1..64}
StdIndex(c) == (CHOOSE i \in 1..64 : StdAlphabet[i] = c) - 1

RECURSIVE StdEncodeToString(_)
\* base64.StdEncoding.EncodeToString
StdEncodeToString(b) ==
  IF Len(b) = 0 THEN <<>>
  ELSE IF Len(b) = 1
    THEN <<StdAlphabet[(b[1] \div 4) + 1], StdAlphabet[((b[1] % 4) * 16) + 1], "=", "=">>
  ELSE IF Len(b) = 2
    THEN <<StdAlphabet[(b[1] \div 4) + 1],
           StdAlphabet[((b[1] % 4) * 16 + (b[2] \div 16)) + 1],
           StdAlphabet[((b[2] % 16) * 4) + 1], "=">>
  ELSE <<StdAlphabet[(b[1] \div 4) + 1],
         StdAlphabet[((b[1] % 4) * 16 + (b[2] \div 16)) + 1],
         StdAlphabet[((b[2] % 16) * 4 + (b[3] \div 64)) + 1],
         StdAlphabet[(b[3] % 64) + 1]>> \o StdEncodeToString(SubSeq(b, 4, Len(b)))

RECURSIVE DecodeQuanta(_, _)
\* The quanta of four characters from position i on: [data, err].  Padding
\* may only end the last quantum; the bits left over in it are dropped.
DecodeQuanta(t, i) ==
  IF i > Len(t) THEN [data |-> <<>>, err |-> NoErr]
  ELSE
    LET bad == [data |-> <<>>, err |-> "DecodeError"]
        last == i + 3 = Len(t)
        n == IF last /\ t[i + 2] = "=" /\ t[i + 3] = "=" THEN 2
             ELSE IF last /\ t[i + 3] = "=" THEN 3 ELSE 4
    IN IF \E k \in 0..(n - 1) : t[i + k] \notin StdAlphabetSet THEN bad
       ELSE
         LET c1 == StdIndex(t[i])
             c2 == StdIndex(t[i + 1])
             c3 == IF n >= 3 THEN StdIndex(t[i + 2]) ELSE 0
             c4 == IF n = 4 THEN StdIndex(t[i + 3]) ELSE 0
             bytes == <<c1 * 4 + (c2 \div 16), (c2 % 16) * 16 + (c3 \div 4),
                        (c3 % 4) * 64 + c4>>
             rest == DecodeQuanta(t, i + 4)
         IN IF rest.err # NoErr THEN bad
            ELSE [data |-> SubSeq(bytes, 1, n - 1) \o rest.data, err |-> NoErr]

\* base64.StdEncoding.DecodeString: carriage returns and line feeds are
\* skipped; what is left must be whole, padded quanta.
StdDecodeString(s) ==
  LET t == SelectSeq(s, LAMBDA c : c \notin {"\r", "\n"})
  IN IF Len(t) % 4 # 0 THEN [data |-> <<>>, err |-> "DecodeError"]
     ELSE DecodeQuanta(t, 1)

---------------------------------------------------------------------------
(* MetadataAddress.GetDetails *)

\* MetadataAddress.Prefix answering only for an address that verifies.
PrefixOnlyWhenValid(a) ==
  LET v == VerifyMetadataAddressFormat(a)
  IN IF v.err # NoErr THEN [prefix |-> <<>>, err |-> v.err]
     ELSE [prefix |-> v.hrp, err |-> NoErr]

\* MetadataAddress.Prefix: [prefix, err]
Prefix(a) ==
  LET v == VerifyMetadataAddressFormat(a)
  IN IF Len(v.hrp) = 0 THEN [prefix |-> v.hrp, err |-> v.err]
     ELSE [prefix |-> v.hrp, err |-> NoErr]

\* MetadataAddress.SecondaryUUID: [uuid, err]
SecondaryUUID(a) ==
  IF Len(a) < 1 THEN [uuid |-> <<>>, err |-> "Empty"]
  ELSE IF ~isTypeOneOf(a, {SessionKeyPrefix}) THEN [uuid |-> <<>>, err |-> "UnknownType"]
  ELSE IF Len(a) < 33 THEN [uuid |-> <<>>, err |-> "LengthMismatch"]
  ELSE FromBytes(SubSeq(a, 18, 33))

\* MetadataAddress.NameHash: [hash, err]; copy fills the 16 bytes from a[17:]
NameHash(a) ==
  LET namehash == [i \in 1..16 |-> 0]
  IN IF Len(a) < 1 THEN [hash |-> namehash, err |-> "Empty"]
     ELSE IF ~isTypeOneOf(a, {RecordKeyPrefix, RecordSpecificationKeyPrefix})
       THEN [hash |-> namehash, err |-> "UnknownType"]
     ELSE IF Len(a) < 33 THEN [hash |-> namehash, err |-> "LengthMismatch"]
     ELSE [hash |-> SubSeq(a, 18, 33), err |-> NoErr]

IsScopeAddress(a) ==
  LET v == VerifyMetadataAddressFormat(a) IN v.err = NoErr /\ v.hrp = PrefixScope

IsContractSpecificationAddress(a) ==
  LET v == VerifyMetadataAddressFormat(a)
  IN v.err = NoErr /\ v.hrp = PrefixContractSpecification

\* IsSessionAddress looking at the hrp alone.
IsSessionAddressByTypeByte(a) == VerifyMetadataAddressFormat(a).hrp = PrefixSession

IsSessionAddress(a) ==
  LET v == VerifyMetadataAddressFormat(a) IN v.err = NoErr /\ v.hrp = PrefixSession

IsRecordAddress(a) ==
  LET v == VerifyMetadataAddressFormat(a) IN v.err = NoErr /\ v.hrp = PrefixRecord

IsScopeSpecificationAddress(a) ==
  LET v == VerifyMetadataAddressFormat(a)
  IN v.err = NoErr /\ v.hrp = PrefixScopeSpecification

IsRecordSpecificationAddress(a) ==
  LET v == VerifyMetadataAddressFormat(a)
  IN v.err = NoErr /\ v.hrp = PrefixRecordSpecification

\* The slice expression a[lo:hi] of a slice whose capacity is its length.
Slice(a, lo, hi) ==
  IF lo <= hi /\ hi <= Len(a) THEN Built(SubSeq(a, lo + 1, hi)) ELSE Panicked

\* expectedLength counting the second part only for a secondary UUID.
ExpectedLengthBySecondaryUUID(secondaryUUIDErr, nameHashErr) ==
  IF secondaryUUIDErr = NoErr THEN 17 + 16 ELSE 17

\* expectedLength := 17, plus 16 if either extraction succeeded
ExpectedLength(secondaryUUIDErr, nameHashErr) ==
  IF secondaryUUIDErr = NoErr \/ nameHashErr = NoErr THEN 17 + 16 ELSE 17

NoDetails ==
  [Address |-> <<>>, AddressPrefix |-> <<>>, AddressPrimaryUUID |-> <<>>,
   AddressSecondaryUUID |-> <<>>, AddressNameHash |-> <<>>, AddressExcess |-> <<>>,
   Prefix |-> <<>>, PrimaryUUID |-> <<>>, SecondaryUUID |-> <<>>, NameHashHex |-> <<>>,
   NameHashBase64 |-> <<>>, ExcessHex |-> <<>>, ExcessBase64 |-> <<>>,
   ParentAddress |-> <<>>]

\* GetDetails: [val, panic], val the MetadataAddressDetails
GetDetails(a) ==
  LET addr == a
      hasPrefix == Len(addr) >= 1
      addressPrefix == IF hasPrefix THEN Slice(addr, 0, 1) ELSE Built(<<>>)
      p == Prefix(addr)
      prefix == IF ~hasPrefix THEN <<>>
                ELSE IF p.err # NoErr THEN EncodeToString(addressPrefix.val)
                ELSE p.prefix
      hasPrimary == Len(addr) >= 17
      primary == IF hasPrimary THEN Slice(addr, 1, 17) ELSE Built(<<>>)
      uid == FromBytes(primary.val)
      sec == SecondaryUUID(addr)
      nh == NameHash(addr)
      expectedLength == ExpectedLength(sec.err, nh.err)
      hasExcess == Len(addr) > expectedLength
      excess == IF hasExcess THEN Slice(addr, expectedLength, Len(addr)) ELSE Built(<<>>)
      asScope == AsScopeAddress(addr)
      asContractSpec == AsContractSpecAddress(addr)
      parent1 == IF ~IsScopeAddress(addr) /\ asScope.err = NoErr THEN asScope.val ELSE <<>>
      parent == IF ~IsContractSpecificationAddress(addr) /\ asContractSpec.err = NoErr
                THEN asContractSpec.val ELSE parent1
  IN IF addressPrefix.panic \/ primary.panic \/ excess.panic
     THEN [val |-> NoDetails, panic |-> TRUE]
     ELSE [val |->
             [Address |-> addr,
              AddressPrefix |-> addressPrefix.val,
              AddressPrimaryUUID |-> primary.val,
              AddressSecondaryUUID |-> IF sec.err = NoErr THEN sec.uuid ELSE <<>>,
              AddressNameHash |-> IF nh.err = NoErr THEN nh.hash ELSE <<>>,
              AddressExcess |-> excess.val,
              Prefix |-> prefix,
              PrimaryUUID |-> IF ~hasPrimary THEN <<>>
                              ELSE UUIDString(IF uid.err = NoErr THEN uid.uuid
                                              ELSE [i \in 1..16 |-> 0]),
              SecondaryUUID |-> IF sec.err = NoErr THEN UUIDString(sec.uuid) ELSE <<>>,
              NameHashHex |-> IF nh.err = NoErr THEN EncodeToString(nh.hash) ELSE <<>>,
              NameHashBase64 |-> IF nh.err = NoErr THEN StdEncodeToString(nh.hash) ELSE <<>>,
              ExcessHex |-> EncodeToString(excess.val),
              ExcessBase64 |-> StdEncodeToString(excess.val),
              ParentAddress |-> parent],
           panic |-> FALSE]

---------------------------------------------------------------------------
(* Denoms and hashes *)

\* Denom leaving the denom prefix out.
DenomWithoutPrefix(a) == String(a)

\* MetadataAddress.Denom
Denom(a) == DenomPrefix \o String(a)

\* strings.TrimPrefix
TrimPrefix(s, prefix) ==
  IF Len(s) >= Len(prefix) /\ SubSeq(s, 1, Len(prefix)) = prefix
  THEN SubSeq(s, Len(prefix) + 1, Len(s)) ELSE s

\* MetadataAddressFromBech32: [val, err]
MetadataAddressFromBech32(address) ==
  CHOOSE r \in {[val |-> p.val, err |-> p.err] :
                  p \in {ParseMetadataAddressFromBech32(address)}} : TRUE

\* MetadataAddressFromDenom: [val, err, cause], cause the error it wraps
MetadataAddressFromDenom(denom) ==
  LET id == TrimPrefix(denom, DenomPrefix)
  IN IF id = denom THEN [val |-> <<>>, err |-> "NotADenom", cause |-> NoErr]
     ELSE CHOOSE r \in
            {IF rv.err # NoErr THEN [val |-> <<>>, err |-> "InvalidDenom", cause |-> rv.err]
             ELSE [val |-> rv.val, err |-> NoErr, cause |-> NoErr] :
               rv \in {MetadataAddressFromBech32(id)}} : TRUE

\* MetadataAddress.Unmarshal: [val, err], val what *ma is set to
Unmarshal(data) ==
  IF Len(data) = 0 THEN [val |-> data, err |-> NoErr]
  ELSE [val |-> data, err |-> VerifyMetadataAddressFormat(data).err]

\* json.Unmarshal(data, &s) for a string s: [s, err].  White space around
\* the value is skipped; a string literal sets s, null leaves it "", any
\* other value or text is an error.  The literals of the model hold no
\* escape sequences.
JsonUnmarshalString(data) ==
  LET t == TrimSpace(data)
      n == Len(t)
      inner == SubSeq(t, 2, n - 1)
  IN IF t = <<"n","u","l","l">> THEN [s |-> <<>>, err |-> NoErr]
     ELSE IF n >= 2 /\ t[1] = "\"" /\ t[n] = "\""
               /\ \A i \in 1..Len(inner) : inner[i] \notin {"\"", "\\", "\t", "\n", "\r"}
       THEN [s |-> inner, err |-> NoErr]
     ELSE [s |-> <<>>, err |-> "JsonError"]

\* yaml.Unmarshal(data, &s) for a string s: [s, err].  The document is
\* turned into JSON and decoded as above: an empty document and the null
\* scalars become null, a plain or quoted scalar becomes a string, a
\* sequence or a mapping is an error.  Documents are single lines.
YamlUnmarshalString(data) ==
  LET t == TrimSpace(data)
      n == Len(t)
  IN IF n = 0 \/ t \in {<<"~">>, <<"n","u","l","l">>} THEN [s |-> <<>>, err |-> NoErr]
     ELSE IF n >= 2 /\ t[1] = "\"" /\ t[n] = "\"" THEN JsonUnmarshalString(t)
     ELSE IF t[1] \in {"[", "{", "\""} \/ t[n] = ":"
               \/ (n >= 2 /\ SubSeq(t, 1, 2) = <<"-", " ">>)
               \/ (\E i \in 1..(n - 1) : t[i] = ":" /\ t[i + 1] = " ")
       THEN [s |-> <<>>, err |-> "YamlError"]
     ELSE [s |-> t, err |-> NoErr]

\* What UnmarshalJSON and UnmarshalYAML do with the decoded string:
\* [val, err], val what *ma holds afterwards (cur: what it held before).
FromDecodedString(cur, d) ==
  IF d.err # NoErr THEN [val |-> cur, err |-> d.err]
  ELSE IF d.s = <<>> THEN [val |-> <<>>, err |-> NoErr]
  ELSE CHOOSE r \in
         {IF ma2.err # NoErr THEN [val |-> cur, err |-> ma2.err]
          ELSE [val |-> ma2.val, err |-> NoErr] :
            ma2 \in {MetadataAddressFromBech32(d.s)}} : TRUE

UnmarshalJSON(cur, data) == FromDecodedString(cur, JsonUnmarshalString(data))

UnmarshalYAML(cur, data) == FromDecodedString(cur, YamlUnmarshalString(data))

\* The reqLen switch with a record taken for a one-UUID address.
ReqLenRecordAsOneUUID(t) ==
  CASE t \in {ScopeKeyPrefix[1], ContractSpecificationKeyPrefix[1],
              ScopeSpecificationKeyPrefix[1], RecordKeyPrefix[1]} -> 16
    [] t = SessionKeyPrefix[1] -> 32
    [] t = RecordSpecificationKeyPrefix[1] -> 32
    [] OTHER -> 0

\* the reqLen the switch on typeCode[0] sets (its default case returns)
ReqLen(t) ==
  CASE t \in {ScopeKeyPrefix[1], ContractSpecificationKeyPrefix[1],
              ScopeSpecificationKeyPrefix[1]} -> 16
    [] t = SessionKeyPrefix[1] -> 32
    [] t \in {RecordKeyPrefix[1], RecordSpecificationKeyPrefix[1]} -> 32
    [] OTHER -> 0

\* ConvertHashToAddress: [val, err]
ConvertHashToAddress(typeCode, hash) ==
  IF Len(typeCode) = 0 THEN [val |-> <<>>, err |-> "EmptyTypeCode"]
  ELSE IF Len(hash) = 0 THEN [val |-> <<>>, err |-> "EmptyHash"]
  ELSE IF typeCode[1] \notin KnownTags THEN [val |-> <<>>, err |-> "UnknownType"]
  ELSE
    LET reqLen == ReqLen(typeCode[1])
        raw == StdDecodeString(hash)
    IN IF raw.err # NoErr THEN [val |-> <<>>, err |-> raw.err]
       ELSE IF Len(raw.data) < reqLen THEN [val |-> <<>>, err |-> "LengthMismatch"]
       ELSE Unmarshal(<<typeCode[1]>> \o SubSeq(raw.data, 1, reqLen))

---------------------------------------------------------------------------
(* AccMDLinks: a list of entries, each nil or an account with an address *)

\* VerifyMetadataAddressHasType: [err, cause]
VerifyMetadataAddressHasType(a, expHRP) ==
  LET v == VerifyMetadataAddressFormat(a)
  IN IF v.err # NoErr THEN [err |-> "InvalidAddress", cause |-> v.err]
     ELSE IF v.hrp # expHRP THEN [err |-> "WrongType", cause |-> NoErr]
     ELSE [err |-> NoErr, cause |-> NoErr]

ValidateIsScopeAddress(a) == VerifyMetadataAddressHasType(a, PrefixScope)

NilLink == [isNil |-> TRUE, AccAddr |-> <<>>, MDAddr |-> <<>>]
NewAccMDLink(accAddr, mdAddr) == [isNil |-> FALSE, AccAddr |-> accAddr, MDAddr |-> mdAddr]

\* The hrp of account addresses, from the sdk configuration.
AccountAddrPrefix == <<"p", "b">>

\* sdk.AccAddress.String: "" for the empty address, else its bech32
AccString(acc) ==
  IF Len(acc) = 0 THEN <<>> ELSE ConvertAndEncode(AccountAddrPrefix, acc)

\* The accounts of the model, and their strings computed once.
AccountA == [i \in 1..20 |-> i] \o <<>>
AccountB == [i \in 1..20 |-> 255 - i] \o <<>>
AccStrings == [acc \in {<<>>, AccountA, AccountB} |-> AccString(acc) \o <<>>]

\* seenMDAddrs[key], zero for a key not yet in the map
Seen(seenMDAddrs, key) == IF key \in DOMAIN seenMDAddrs THEN seenMDAddrs[key] ELSE 0
SetSeen(seenMDAddrs, key, n) ==
  [k \in DOMAIN seenMDAddrs \cup {key} |-> IF k = key THEN n ELSE seenMDAddrs[k]]

RECURSIVE ValidateForScopesFrom(_, _, _)
\* The loop of ValidateForScopes from entry i on: [err, cause]
ValidateForScopesFrom(a, i, seenMDAddrs) ==
  IF i > Len(a) THEN [err |-> NoErr, cause |-> NoErr]
  ELSE
    LET link == a[i]
        key == link.MDAddr
        n == Seen(seenMDAddrs, key)
        valid == ValidateIsScopeAddress(link.MDAddr)
    IN IF link.isNil THEN [err |-> "NilEntry", cause |-> NoErr]
       ELSE IF n = 0 /\ valid.err # NoErr THEN valid
       ELSE IF n = 1 THEN [err |-> "DuplicateAddress", cause |-> NoErr]
       ELSE IF Len(link.AccAddr) = 0 THEN [err |-> "MissingAccount", cause |-> NoErr]
       ELSE ValidateForScopesFrom(a, i + 1,
                                  IF n = 0 THEN SetSeen(seenMDAddrs, key, 1) ELSE seenMDAddrs)

\* ValidateForScopes reporting a missing account before looking at the address.
ValidateForScopesAccountFirst(a) ==
  IF \E i \in 1..Len(a) : ~a[i].isNil /\ Len(a[i].AccAddr) = 0
  THEN [err |-> "MissingAccount", cause |-> NoErr]
  ELSE IF Len(a) = 0 THEN [err |-> NoErr, cause |-> NoErr]
  ELSE ValidateForScopesFrom(a, 1, [k \in {} |-> 0])

\* ValidateForScopes without the map of the addresses seen.
ValidateForScopesWithoutSeen(a) ==
  IF \E i \in 1..Len(a) : a[i].isNil THEN [err |-> "NilEntry", cause |-> NoErr]
  ELSE IF \E i \in 1..Len(a) : ValidateIsScopeAddress(a[i].MDAddr).err # NoErr
    THEN [err |-> "WrongType", cause |-> NoErr]
  ELSE IF \E i \in 1..Len(a) : Len(a[i].AccAddr) = 0
    THEN [err |-> "MissingAccount", cause |-> NoErr]
  ELSE [err |-> NoErr, cause |-> NoErr]

\* AccMDLinks.ValidateForScopes: [err, cause]
ValidateForScopes(a) ==
  IF Len(a) = 0 THEN [err |-> NoErr, cause |-> NoErr]
  ELSE ValidateForScopesFrom(a, 1, [k \in {} |-> 0])

RECURSIVE GetAccAddrsFrom(_, _, _, _)
\* The loop of GetAccAddrs from entry i on
GetAccAddrsFrom(a, i, seen, rv) ==
  IF i > Len(a) THEN rv
  ELSE LET link == a[i]
       IN IF link.isNil \/ Len(link.AccAddr) = 0 THEN GetAccAddrsFrom(a, i + 1, seen, rv)
          ELSE IF link.AccAddr \notin seen
            THEN GetAccAddrsFrom(a, i + 1, seen \cup {link.AccAddr}, Append(rv, link.AccAddr))
          ELSE GetAccAddrsFrom(a, i + 1, seen, rv)

\* GetAccAddrs keeping every occurrence.
GetAccAddrsWithRepeats(a) ==
  LET kept == SelectSeq(a, LAMBDA link : ~link.isNil /\ Len(link.AccAddr) > 0)
  IN [i \in 1..Len(kept) |-> kept[i].AccAddr] \o <<>>

\* AccMDLinks.GetAccAddrs
GetAccAddrs(a) == GetAccAddrsFrom(a, 1, {}, <<>>)

\* GetPrimaryUUIDs giving the string of the bytes whatever PrimaryUUID says.
GetPrimaryUUIDsIgnoringErr(a) ==
  [i \in 1..Len(a) |->
     IF ~a[i].isNil /\ Len(a[i].MDAddr) >= 17
     THEN UUIDString(SubSeq(a[i].MDAddr, 2, 17)) ELSE <<>>] \o <<>>

\* AccMDLinks.GetPrimaryUUIDs
GetPrimaryUUIDs(a) ==
  [i \in 1..Len(a) |->
     IF ~a[i].isNil /\ Len(a[i].MDAddr) > 0
     THEN LET id == PrimaryUUID(a[i].MDAddr)
          IN IF id.err = NoErr THEN UUIDString(id.uuid) ELSE <<>>
     ELSE <<>>] \o <<>>

\* GetMDAddrsForAccAddr stopping at the first match.
GetMDAddrsForAccAddrFirstOnly(a, addr) ==
  LET kept == SelectSeq(a, LAMBDA link : ~link.isNil /\ addr = AccStrings[link.AccAddr])
  IN IF Len(kept) = 0 THEN <<>> ELSE <<kept[1].MDAddr>>

\* AccMDLinks.GetMDAddrsForAccAddr
GetMDAddrsForAccAddr(a, addr) ==
  LET kept == SelectSeq(a, LAMBDA link : ~link.isNil /\ addr = AccStrings[link.AccAddr])
  IN [i \in 1..Len(kept) |-> kept[i].MDAddr] \o <<>>

---------------------------------------------------------------------------
(* The config set command *)

\* The three configs are field maps from key to value, searched in the
\* order app, cometbft, client.  What the config package decides is read off
\* the value: SetFromString rejects one it cannot parse ("bad"), and
\* ValidateBasic rejects a config holding one out of range ("odd").
entryNotFound == -1
ConfigNames == <<"app", "cmt", "client">>
ConfigFiles ==
  [app |-> [k \in {"api.enable", "api.swagger"} |-> "default"],
   cmt |-> [k \in {"moniker"} |-> "default"],
   client |-> [k \in {"output"} |-> "default"]]

Has(fvm, key) == key \in DOMAIN fvm

SetFromString(fvm, key, val) ==
  IF val = "bad" THEN [fvm |-> fvm, err |-> "SetError"]
  ELSE [fvm |-> [fvm EXCEPT ![key] = val], err |-> NoErr]

ValidateBasic(config) ==
  IF \E k \in DOMAIN config : config[k] = "odd" THEN "Invalid" ELSE NoErr

\* the index of the first field map that has the key
FoundIn(fields, key) ==
  LET hits == {i \in 1..3 : Has(fields[ConfigNames[i]], key)}
  IN IF hits = {} THEN entryNotFound
     ELSE (CHOOSE i \in hits : \A j \in hits : i <= j) - 1

\* The loop over the keys: st holds the field maps, the updates of each
\* config (the keys set), and the keys that raised an issue.
RECURSIVE SetValues(_, _, _, _)
SetValues(keyList, vals, i, st) ==
  IF i > Len(keyList) THEN st
  ELSE
    LET key == keyList[i]
        foundIn == FoundIn(st.fields, key)
    IN IF foundIn = entryNotFound
       THEN SetValues(keyList, vals, i + 1, [st EXCEPT !.unknown = @ \cup {key}])
       ELSE
         LET name == ConfigNames[foundIn + 1]
             set == SetFromString(st.fields[name], key, vals[i])
         IN IF set.err # NoErr
            THEN SetValues(keyList, vals, i + 1, [st EXCEPT !.failed = @ \cup {key}])
            ELSE SetValues(keyList, vals, i + 1,
                           [st EXCEPT !.fields[name] = set.fvm,
                                      !.updates[name] = @ \cup {key}])

\* The validation step looking at the app config alone.
ValidatedAppOnly(st) ==
  [name \in {"app", "cmt", "client"} |->
     IF st.updates[name] = {} \/ name # "app" THEN "skipped"
     ELSE IF ValidateBasic(st.fields[name]) # NoErr THEN "failed" ELSE "passed"]

\* ValidateBasic of each config with updates: what it said, per config
Validated(st) ==
  [name \in {"app", "cmt", "client"} |->
     IF st.updates[name] = {} THEN "skipped"
     ELSE IF ValidateBasic(st.fields[name]) # NoErr THEN "failed" ELSE "passed"]

\* The outcome of the command: whether the files were loaded and saved,
\* what the files hold, what was found on the way, and the two results.
Outcome(files) ==
  [showHelp |-> FALSE, err |-> NoErr, loaded |-> FALSE, saved |-> {}, saveCalled |-> FALSE,
   files |-> files, unknown |-> {}, failed |-> {},
   validated |-> [name \in {"app", "cmt", "client"} |-> "skipped"], runE |-> NoErr]

\* runConfigSetCmd.  env tells which of the steps that read the
\* environment succeed: the client context, the files, the three configs.
runConfigSetCmd(cmdArgs, env, files) ==
  LET out == Outcome(files)
      keyCount == Len(cmdArgs) \div 2
      keyList == [i \in 1..keyCount |-> cmdArgs[2 * i - 1]]
      vals == [i \in 1..keyCount |-> cmdArgs[2 * i]]
      st == SetValues(keyList, vals, 1,
                      [fields |-> files, unknown |-> {}, failed |-> {},
                       updates |-> [name \in {"app", "cmt", "client"} |-> {}]])
      issueInLoop == st.unknown # {} \/ st.failed # {}
      validated == IF issueInLoop THEN out.validated ELSE Validated(st)
      issueFound == issueInLoop \/ \E name \in DOMAIN validated : validated[name] = "failed"
      found == [out EXCEPT !.loaded = TRUE, !.unknown = st.unknown, !.failed = st.failed,
                           !.validated = validated]
      changed == {name \in {"app", "cmt", "client"} : st.updates[name] # {}}
  IN IF Len(cmdArgs) = 0 THEN [out EXCEPT !.showHelp = TRUE, !.err = "NoPairs"]
     ELSE IF Len(cmdArgs) % 2 # 0 THEN [out EXCEPT !.showHelp = TRUE, !.err = "OddArguments"]
     ELSE IF ~env.context THEN [out EXCEPT !.err = "ContextError"]
     ELSE IF ~env.files THEN [out EXCEPT !.loaded = TRUE, !.err = "LoadError"]
     ELSE IF ~env.app THEN [out EXCEPT !.loaded = TRUE, !.err = "AppConfigError"]
     ELSE IF ~env.cmt THEN [out EXCEPT !.loaded = TRUE, !.err = "CmtConfigError"]
     ELSE IF ~env.client THEN [out EXCEPT !.loaded = TRUE, !.err = "ClientConfigError"]
     ELSE IF issueFound THEN [found EXCEPT !.err = "IssuesFound"]
     ELSE [found EXCEPT !.saveCalled = TRUE, !.saved = changed,
                        !.files = [name \in {"app", "cmt", "client"} |->
                                     IF name \in changed THEN st.fields[name]
                                     ELSE files[name]]]

\* ConfigSetCmd's RunE: the error goes back only when help is wanted.
ConfigSetCmd(cmdArgs, env, files) ==
  LET r == runConfigSetCmd(cmdArgs, env, files)
  IN [r EXCEPT !.runE = IF r.err # NoErr /\ r.showHelp THEN r.err ELSE NoErr]

NoConf == [args |-> <<>>, env |-> <<>>, out |-> Outcome(ConfigFiles)]

---------------------------------------------------------------------------
(* Inputs *)

Pattern(k, n) == [i \in 1..n |-> (k * (i + 16)) % 256]
UUIDs == {Pattern(k, 16) : k \in 0..(NumPatterns - 1)}
Tags == 0..(5 + NumUnknownTags)
Lens == {n \in 0..(33 + Slack) : \E c \in {0, 17, 33} : n - c \in (0 - Slack)..Slack}
RawAddrs == {<<>>} \cup
            {<<t>> \o Pattern(k, n - 1) : t \in Tags, k \in 0..(NumPatterns - 1), n \in Lens \ {0}}
\* A slice shorter than 17 bytes may sit in a larger backing array.
Spares(a) == {<<>>} \cup (IF Len(a) < 17 THEN {Pattern(1, 17 - Len(a))} ELSE {})

Names == {<<>>, <<" ">>, <<"f","o","o">>, <<"F","o","o">>, <<" ","f","o","o"," ">>,
          <<"F","O","O">>, <<"b","a","r">>}

\* The texts handed to the parser for the address in hand: its String, the
\* bech32 of its bytes under its own and under other prefixes, its String in
\* upper case and with the last character changed, and blanks.
OwnPrefixes(a) == IF Len(a) > 0 /\ a[1] \in KnownTags
                  THEN {VerifyMetadataAddressFormat(a).hrp} ELSE {}
AllPrefixes == {PrefixScope, PrefixSession, PrefixRecord, PrefixScopeSpecification,
                PrefixContractSpecification, PrefixRecordSpecification}
TextsOf(a, str) ==
  LET valid == VerifyMetadataAddressFormat(a).err = NoErr
      last == IF str[Len(str)] = "q" THEN "p" ELSE "q"
  IN {[kind |-> "string", hrp |-> <<>>, text |-> str],
      [kind |-> "blank", hrp |-> <<>>, text |-> <<" ", " ">>]}
     \cup (IF Len(a) = 0 THEN {}
           ELSE {[kind |-> "encode", hrp |-> h, text |-> ConvertAndEncode(h, a)] :
                   h \in IF valid THEN AllPrefixes \ OwnPrefixes(a) ELSE AllPrefixes})
     \cup (IF ~valid THEN {}
           ELSE {[kind |-> "upper", hrp |-> <<>>, text |-> ToUpper(str)],
                 [kind |-> "corrupt", hrp |-> <<>>,
                  text |-> [str EXCEPT ![Len(str)] = last]]})
Texts(a) == UNION {TextsOf(a, str) : str \in {String(a)}}

\* The denoms handed to MetadataAddressFromDenom for the address in hand.
DenomsOf(a, str) ==
  LET last == IF Len(str) > 0 /\ str[Len(str)] = "q" THEN "p" ELSE "q"
  IN {[kind |-> "denom", text |-> Denom(a)],
      [kind |-> "bare", text |-> str],
      [kind |-> "prefixOnly", text |-> DenomPrefix],
      [kind |-> "upperPrefix", text |-> ToUpper(DenomPrefix) \o str],
      [kind |-> "spaced", text |-> <<" ">> \o (DenomPrefix \o str)],
      [kind |-> "twice", text |-> DenomPrefix \o (DenomPrefix \o str)],
      [kind |-> "corrupt", text |-> DenomPrefix \o (str \o <<last>>)]}
Denoms(a) == UNION {DenomsOf(a, str) : str \in {String(a)}}

\* The type codes and hashes handed to ConvertHashToAddress: the tag of the
\* address in hand alone and followed by another byte, and the base64 of
\* the bytes after its tag, whole, cut, spoilt and broken over two lines.
TypeCodes(a) == {<<>>} \cup (IF Len(a) = 0 THEN {} ELSE {<<a[1]>>, <<a[1], 255>>})
Payload(a) == IF Len(a) = 0 THEN <<>> ELSE SubSeq(a, 2, Len(a))
HashesOf(enc) ==
  {[kind |-> "empty", text |-> <<>>],
   [kind |-> "encoded", text |-> enc],
   [kind |-> "cut", text |-> enc \o <<"A">>],
   [kind |-> "spoilt", text |-> <<"!", "A", "A", "A">> \o enc],
   [kind |-> "lines", text |-> <<"\r", "\n">> \o (enc \o <<"\n">>)]}
Hashes(a) == UNION {HashesOf(enc) : enc \in {StdEncodeToString(Payload(a))}}

NoArgs == [name |-> <<>>, uuid |-> <<>>, uuid2 |-> <<>>, text |-> <<>>, kind |-> "",
           hrp |-> <<>>, typeCode |-> <<>>, data |-> <<>>]
NoRet == [val |-> <<>>, str |-> <<>>, err |-> NoErr, panic |-> FALSE, cause |-> NoErr,
          details |-> NoDetails, list |-> <<>>, ok |-> FALSE, shares |-> ""]

Init ==
  /\ ma \in RawAddrs
  /\ spare \in Spares(ma)
  /\ origin = "raw"
  /\ pc = "ready"
  /\ op = "none"
  /\ args = NoArgs
  /\ ret = NoRet
  /\ links = <<>>
  /\ keys = PackageKeys
  /\ conf = NoConf

\* A call that only reads ma.
Call(name, a, r) ==
  /\ pc = "ready"
  /\ pc' = "done"
  /\ op' = name
  /\ args' = a
  /\ ret' = r
  /\ UNCHANGED <<ma, spare, origin, links, keys, conf>>

\* A constructor call: its result becomes the address in hand, in a backing
\* array of its own; a panic ends the run.
Construct(name, a, b) ==
  /\ pc = "ready"
  /\ op' = name
  /\ args' = a
  /\ ret' = [NoRet EXCEPT !.val = b.val, !.panic = b.panic]
  /\ IF b.panic
     THEN pc' = "done" /\ UNCHANGED <<ma, spare, origin>>
     ELSE pc' = "ready" /\ ma' = b.val /\ spare' = <<>> /\ origin' = name
  /\ UNCHANGED <<links, keys, conf>>

\* The [val, err, panic] of a derivation or prefix call, as a return record.
Returned(r) == [NoRet EXCEPT !.val = r.val, !.err = r.err, !.panic = r.panic]

DoVerifyMetadataAddressFormat ==
  /\ pc = "ready"
  /\ LET v == VerifyMetadataAddressFormat(ma)
     IN Call("VerifyMetadataAddressFormat", NoArgs, [NoRet EXCEPT !.str = v.hrp, !.err = v.err])

DoValidate ==
  /\ pc = "ready"
  /\ Call("Validate", NoArgs, [NoRet EXCEPT !.err = Validate(ma)])

DoScopeMetadataAddress ==
  /\ pc = "ready"
  /\ \E u \in UUIDs :
      Construct("ScopeMetadataAddress", [NoArgs EXCEPT !.uuid = u], ScopeMetadataAddress(u))

DoSessionMetadataAddress ==
  /\ pc = "ready"
  /\ \E u \in UUIDs, u2 \in UUIDs :
      Construct("SessionMetadataAddress", [NoArgs EXCEPT !.uuid = u, !.uuid2 = u2],
              SessionMetadataAddress(u, u2))

DoRecordMetadataAddress ==
  /\ pc = "ready"
  /\ \E u \in UUIDs, n \in Names :
      Construct("RecordMetadataAddress", [NoArgs EXCEPT !.uuid = u, !.name = n],
              RecordMetadataAddress(u, n))

DoScopeSpecMetadataAddress ==
  /\ pc = "ready"
  /\ \E u \in UUIDs :
      Construct("ScopeSpecMetadataAddress", [NoArgs EXCEPT !.uuid = u], ScopeSpecMetadataAddress(u))

DoContractSpecMetadataAddress ==
  /\ pc = "ready"
  /\ \E u \in UUIDs :
      Construct("ContractSpecMetadataAddress", [NoArgs EXCEPT !.uuid = u],
              ContractSpecMetadataAddress(u))

DoRecordSpecMetadataAddress ==
  /\ pc = "ready"
  /\ \E u \in UUIDs, n \in Names :
      Construct("RecordSpecMetadataAddress", [NoArgs EXCEPT !.uuid = u, !.name = n],
              RecordSpecMetadataAddress(u, n))

DoString ==
  /\ pc = "ready"
  /\ Call("String", NoArgs, [NoRet EXCEPT !.str = String(ma)])

DoParseMetadataAddressFromBech32 ==
  /\ pc = "ready"
  /\ \E t \in Texts(ma) :
      \E p \in {ParseMetadataAddressFromBech32(t.text)} :
       Call("ParseMetadataAddressFromBech32",
            [NoArgs EXCEPT !.text = t.text, !.kind = t.kind, !.hrp = t.hrp],
            [NoRet EXCEPT !.val = p.val, !.str = p.hrp, !.err = p.err])

DoAsScopeAddress ==
  /\ pc = "ready"
  /\ Call("AsScopeAddress", NoArgs, Returned(AsScopeAddress(ma)))

DoAsSessionAddress ==
  /\ pc = "ready"
  /\ \E u \in UUIDs :
      Call("AsSessionAddress", [NoArgs EXCEPT !.uuid = u], Returned(AsSessionAddress(ma, u)))

DoAsRecordAddress ==
  /\ pc = "ready"
  /\ \E n \in Names :
      Call("AsRecordAddress", [NoArgs EXCEPT !.name = n], Returned(AsRecordAddress(ma, n)))

DoAsRecordSpecAddress ==
  /\ pc = "ready"
  /\ \E n \in Names :
      Call("AsRecordSpecAddress", [NoArgs EXCEPT !.name = n], Returned(AsRecordSpecAddress(ma, n)))

DoAsContractSpecAddress ==
  /\ pc = "ready"
  /\ Call("AsContractSpecAddress", NoArgs, Returned(AsContractSpecAddress(ma)))

\* The [val, panic] of a Must... call, as a return record.
Got(r) == [NoRet EXCEPT !.val = r.val, !.panic = r.panic]

DoMustGetAsScopeAddress ==
  /\ pc = "ready"
  /\ Call("MustGetAsScopeAddress", NoArgs, Got(MustGetAsScopeAddress(ma)))

DoMustGetAsSessionAddress ==
  /\ pc = "ready"
  /\ \E u \in UUIDs :
      Call("MustGetAsSessionAddress", [NoArgs EXCEPT !.uuid = u],
           Got(MustGetAsSessionAddress(ma, u)))

DoMustGetAsRecordAddress ==
  /\ pc = "ready"
  /\ \E n \in Names :
      Call("MustGetAsRecordAddress", [NoArgs EXCEPT !.name = n],
           Got(MustGetAsRecordAddress(ma, n)))

DoMustGetAsRecordSpecAddress ==
  /\ pc = "ready"
  /\ \E n \in Names :
      Call("MustGetAsRecordSpecAddress", [NoArgs EXCEPT !.name = n],
           Got(MustGetAsRecordSpecAddress(ma, n)))

DoMustGetAsContractSpecAddress ==
  /\ pc = "ready"
  /\ Call("MustGetAsContractSpecAddress", NoArgs, Got(MustGetAsContractSpecAddress(ma)))

DoScopeSessionIteratorPrefix ==
  /\ pc = "ready"
  /\ Call("ScopeSessionIteratorPrefix", NoArgs, Returned(ScopeSessionIteratorPrefix(ma, spare)))

DoScopeRecordIteratorPrefix ==
  /\ pc = "ready"
  /\ Call("ScopeRecordIteratorPrefix", NoArgs, Returned(ScopeRecordIteratorPrefix(ma, spare)))

DoContractSpecRecordSpecIteratorPrefix ==
  /\ pc = "ready"
  /\ Call("ContractSpecRecordSpecIteratorPrefix", NoArgs,
       Returned(ContractSpecRecordSpecIteratorPrefix(ma, spare)))

DoIsScopeAddress ==
  /\ pc = "ready"
  /\ Call("IsScopeAddress", NoArgs, [NoRet EXCEPT !.ok = IsScopeAddress(ma)])

DoIsSessionAddress ==
  /\ pc = "ready"
  /\ Call("IsSessionAddress", NoArgs, [NoRet EXCEPT !.ok = IsSessionAddress(ma)])

DoIsRecordAddress ==
  /\ pc = "ready"
  /\ Call("IsRecordAddress", NoArgs, [NoRet EXCEPT !.ok = IsRecordAddress(ma)])

DoIsScopeSpecificationAddress ==
  /\ pc = "ready"
  /\ Call("IsScopeSpecificationAddress", NoArgs,
          [NoRet EXCEPT !.ok = IsScopeSpecificationAddress(ma)])

DoIsContractSpecificationAddress ==
  /\ pc = "ready"
  /\ Call("IsContractSpecificationAddress", NoArgs,
          [NoRet EXCEPT !.ok = IsContractSpecificationAddress(ma)])

DoIsRecordSpecificationAddress ==
  /\ pc = "ready"
  /\ Call("IsRecordSpecificationAddress", NoArgs,
          [NoRet EXCEPT !.ok = IsRecordSpecificationAddress(ma)])

DoValidateIsScopeAddress ==
  /\ pc = "ready"
  /\ LET v == ValidateIsScopeAddress(ma)
     IN Call("ValidateIsScopeAddress", NoArgs, [NoRet EXCEPT !.err = v.err, !.cause = v.cause])

DoGetDetails ==
  /\ pc = "ready"
  /\ LET d == GetDetails(ma)
     IN Call("GetDetails", NoArgs, [NoRet EXCEPT !.details = d.val, !.panic = d.panic])

DoDenom ==
  /\ pc = "ready"
  /\ Call("Denom", NoArgs, [NoRet EXCEPT !.str = Denom(ma)])

DoMetadataAddressFromDenom ==
  /\ pc = "ready"
  /\ \E d \in Denoms(ma) :
      \E r \in {MetadataAddressFromDenom(d.text)} :
       Call("MetadataAddressFromDenom", [NoArgs EXCEPT !.text = d.text, !.kind = d.kind],
            [NoRet EXCEPT !.val = r.val, !.err = r.err, !.cause = r.cause])

DoConvertHashToAddress ==
  /\ pc = "ready"
  /\ \E typeCode \in TypeCodes(ma), h \in Hashes(ma) :
      \E r \in {ConvertHashToAddress(typeCode, h.text)} :
       Call("ConvertHashToAddress",
            [NoArgs EXCEPT !.typeCode = typeCode, !.text = h.text, !.kind = h.kind],
            [NoRet EXCEPT !.val = r.val, !.err = r.err])

\* The accounts and addresses of the links: two accounts and none, two
\* scopes, a record, and addresses no primary UUID can be read from.
ScopeX == ScopeMetadataAddress(Pattern(1, 16)).val
ScopeY == ScopeMetadataAddress(Pattern(3, 16)).val
RecordX == RecordMetadataAddress(Pattern(1, 16), <<"f", "o", "o">>).val
LinkInputs ==
  {NewAccMDLink(acc, md) : acc \in {<<>>, AccountA, AccountB}, md \in {ScopeX, ScopeY, RecordX}}
    \cup {NewAccMDLink(AccountA, <<>>),
          NewAccMDLink(AccountB, <<ScopeKeyPrefix[1], 1, 2>>),
          NewAccMDLink(AccountA, <<255>> \o Pattern(1, 16))}
AccTexts == {<<>>, AccStrings[AccountA], AccStrings[AccountB], ToUpper(AccStrings[AccountA])}

LinksInit ==
  /\ ma = <<>>
  /\ spare = <<>>
  /\ origin = "raw"
  /\ pc = "ready"
  /\ op = "none"
  /\ args = NoArgs
  /\ ret = NoRet
  /\ links = <<>>
  /\ keys = PackageKeys
  /\ conf = NoConf

\* The list grows by one entry.
Grow(entry) ==
  /\ pc = "ready"
  /\ Len(links) < MaxLinks
  /\ links' = Append(links, entry)
  /\ UNCHANGED <<ma, spare, origin, pc, op, args, ret, keys, conf>>

DoNewAccMDLink ==
  /\ pc = "ready"
  /\ \E link \in LinkInputs : Grow(link)

DoAppendNil ==
  /\ pc = "ready"
  /\ Grow(NilLink)

DoValidateForScopes ==
  /\ pc = "ready"
  /\ LET v == ValidateForScopes(links)
     IN Call("ValidateForScopes", NoArgs, [NoRet EXCEPT !.err = v.err, !.cause = v.cause])

DoGetAccAddrs ==
  /\ pc = "ready"
  /\ Call("GetAccAddrs", NoArgs, [NoRet EXCEPT !.list = GetAccAddrs(links)])

DoGetPrimaryUUIDs ==
  /\ pc = "ready"
  /\ Call("GetPrimaryUUIDs", NoArgs, [NoRet EXCEPT !.list = GetPrimaryUUIDs(links)])

DoGetMDAddrsForAccAddr ==
  /\ pc = "ready"
  /\ \E t \in AccTexts :
      Call("GetMDAddrsForAccAddr", [NoArgs EXCEPT !.text = t],
           [NoRet EXCEPT !.list = GetMDAddrsForAccAddr(links, t)])

LinksNext ==
  \/ DoNewAccMDLink
  \/ DoAppendNil
  \/ DoValidateForScopes
  \/ DoGetAccAddrs
  \/ DoGetPrimaryUUIDs
  \/ DoGetMDAddrsForAccAddr

LinksSpec == LinksInit /\ [][LinksNext]_vars

\* Callers that write into what they were handed.  The key prefixes are
\* package variables holding byte slices, each of one byte in an array of
\* that length, so that append(KeyPrefix, bz...) allocates a new array while
\* a return of KeyPrefix itself hands out the variable's own array.  ret.shares
\* names the key prefix variable whose array the returned slice is, if any.
AliasAddrs == {<<>>, ScopeX, RecordX, ContractSpecMetadataAddress(Pattern(1, 16)).val}
WrittenBytes == {ScopeKeyPrefix[1], 255}

AliasInit ==
  /\ ma \in AliasAddrs
  /\ spare = <<>>
  /\ origin = "raw"
  /\ pc = "ready"
  /\ op = "none"
  /\ args = NoArgs
  /\ ret = NoRet
  /\ links = <<>>
  /\ keys = PackageKeys
  /\ conf = NoConf

\* A call whose result the caller holds on to.
Hold(name, r, shares) ==
  /\ pc = "ready"
  /\ pc' = "held"
  /\ op' = name
  /\ args' = NoArgs
  /\ ret' = [Returned(r) EXCEPT !.shares = shares]
  /\ UNCHANGED <<ma, spare, origin, links, keys, conf>>

\* return KeyPrefix, nil for the empty address; append(KeyPrefix, ...) otherwise
SharedWith(a, name) == IF Len(a) < 1 THEN name ELSE ""

\* The scope-side family as the key prefix variables now read.
ScopeSideKeys == {keys.Scope, keys.Session, keys.Record}

HoldScopeSessionIteratorPrefix ==
  /\ pc = "ready"
  /\ Hold("ScopeSessionIteratorPrefix",
          IteratorPrefix(ma, spare, keys.Session, ScopeSideKeys),
          SharedWith(ma, "Session"))

HoldScopeRecordIteratorPrefix ==
  /\ pc = "ready"
  /\ Hold("ScopeRecordIteratorPrefix",
          IteratorPrefix(ma, spare, keys.Record, ScopeSideKeys),
          SharedWith(ma, "Record"))

HoldContractSpecRecordSpecIteratorPrefix ==
  /\ pc = "ready"
  /\ Hold("ContractSpecRecordSpecIteratorPrefix",
          IteratorPrefix(ma, spare, keys.RecordSpecification,
                         {keys.ContractSpecification, keys.RecordSpecification}),
          SharedWith(ma, "RecordSpecification"))

\* append(ScopeKeyPrefix, bz...): a new array
HoldScopeMetadataAddress ==
  /\ pc = "ready"
  /\ \E u \in UUIDs :
      Hold("ScopeMetadataAddress", Derived(Built(keys.Scope \o u)), "")

\* The caller overwrites byte 0 of the slice it holds: the write lands in
\* the array behind the slice, whoever else reads that array.
CallerOverwrites ==
  /\ pc = "held"
  /\ ~ret.panic /\ Len(ret.val) >= 1
  /\ \E b \in WrittenBytes :
      /\ ret' = [ret EXCEPT !.val[1] = b]
      /\ keys' = IF ret.shares = "" THEN keys ELSE [keys EXCEPT ![ret.shares][1] = b]
  /\ pc' = "ready"
  /\ UNCHANGED <<ma, spare, origin, op, args, links, conf>>

\* The caller lets go of what it holds.
CallerDrops ==
  /\ pc = "held"
  /\ pc' = "ready"
  /\ UNCHANGED <<ma, spare, origin, op, args, ret, links, keys, conf>>

AliasNext ==
  \/ HoldScopeSessionIteratorPrefix
  \/ HoldScopeRecordIteratorPrefix
  \/ HoldContractSpecRecordSpecIteratorPrefix
  \/ HoldScopeMetadataAddress
  \/ CallerOverwrites
  \/ CallerDrops

AliasSpec == AliasInit /\ [][AliasNext]_vars

\* The config set command on argument lists of up to MaxPairs pairs and a
\* stray argument, with every step of the environment failing in turn.
ConfigKeys == {"api.enable", "api.swagger", "moniker", "output", "nokey"}
ConfigValues == {"good", "bad", "odd"}
RECURSIVE PairLists(_)
PairLists(n) ==
  IF n = 0 THEN {<<>>}
  ELSE LET shorter == PairLists(n - 1)
       IN shorter \cup {l \o <<k, v>> : l \in shorter, k \in ConfigKeys, v \in ConfigValues}
ArgLists == LET even == PairLists(MaxPairs)
            IN even \cup {l \o <<"moniker">> : l \in {e \in even : Len(e) <= 2}}
AllGood == [context |-> TRUE, files |-> TRUE, app |-> TRUE, cmt |-> TRUE, client |-> TRUE]
Envs == {AllGood} \cup {[AllGood EXCEPT ![step] = FALSE] : step \in DOMAIN AllGood}

ConfigInit ==
  /\ ma = <<>>
  /\ spare = <<>>
  /\ origin = "raw"
  /\ pc = "ready"
  /\ op = "none"
  /\ args = NoArgs
  /\ ret = NoRet
  /\ links = <<>>
  /\ keys = PackageKeys
  /\ conf = NoConf

DoConfigSetCmd ==
  /\ pc = "ready"
  /\ \E cmdArgs \in ArgLists, env \in Envs :
      conf' = [args |-> cmdArgs, env |-> env, out |-> ConfigSetCmd(cmdArgs, env, conf.out.files)]
  /\ pc' = "done"
  /\ op' = "ConfigSetCmd"
  /\ UNCHANGED <<ma, spare, origin, args, ret, links, keys>>

ConfigNext ==
  \/ DoConfigSetCmd

ConfigSpec == ConfigInit /\ [][ConfigNext]_vars

\* Decoding into a MetadataAddress variable: ma is the variable, and each
\* call leaves it ready for the next.  The texts are those of two valid
\* addresses, whole, spoilt, quoted and bare, and values that are no text;
\* the data are byte sequences of every tag and length.
EncodedTexts == {String(a) : a \in {ScopeX, RecordX}}
DataInputs == {<<>>} \cup {<<t>> \o Pattern(1, n - 1) : t \in Tags, n \in Lens \ {0}}
Quoted(t) == (<<"\"">> \o t) \o <<"\"">>
Spoilt(t) == [t EXCEPT ![Len(t)] = IF t[Len(t)] = "q" THEN "p" ELSE "q"]
JsonInputs ==
  UNION {{Quoted(t), <<" ">> \o Quoted(t), Quoted(Spoilt(t)), t} : t \in EncodedTexts}
    \cup {Quoted(<<>>), <<"n","u","l","l">>, <<"1","7">>, <<"[","]">>, Quoted(<<" ">>), <<>>}
YamlInputs ==
  UNION {{t, Quoted(t), Spoilt(t), <<"-", " ">> \o t, (<<"a", ":", " ">> \o t)} :
            t \in EncodedTexts}
    \cup {<<>>, <<"~">>, <<"n","u","l","l">>, Quoted(<<>>), <<"[","]">>, <<"1","7">>}

DecodeInit ==
  /\ ma = <<>>
  /\ spare = <<>>
  /\ origin = "raw"
  /\ pc = "ready"
  /\ op = "none"
  /\ args = NoArgs
  /\ ret = NoRet
  /\ links = <<>>
  /\ keys = PackageKeys
  /\ conf = NoConf

\* A call of a pointer-receiver decoder: *ma becomes r.val.
Decode(name, a, r) ==
  /\ pc = "ready"
  /\ ma' = r.val
  /\ op' = name
  /\ args' = a
  /\ ret' = [NoRet EXCEPT !.err = r.err]
  /\ UNCHANGED <<spare, origin, pc, links, keys, conf>>

DoUnmarshal ==
  /\ pc = "ready"
  /\ \E data \in DataInputs :
      Decode("Unmarshal", [NoArgs EXCEPT !.data = data], Unmarshal(data))

DoUnmarshalJSON ==
  /\ pc = "ready"
  /\ \E data \in JsonInputs :
      Decode("UnmarshalJSON", [NoArgs EXCEPT !.text = data], UnmarshalJSON(ma, data))

DoUnmarshalYAML ==
  /\ pc = "ready"
  /\ \E data \in YamlInputs :
      Decode("UnmarshalYAML", [NoArgs EXCEPT !.text = data], UnmarshalYAML(ma, data))

DecodeNext ==
  \/ DoUnmarshal
  \/ DoUnmarshalJSON
  \/ DoUnmarshalYAML

DecodeSpec == DecodeInit /\ [][DecodeNext]_vars

Next ==
  \/ DoVerifyMetadataAddressFormat
  \/ DoValidate
  \/ DoScopeMetadataAddress
  \/ DoSessionMetadataAddress
  \/ DoRecordMetadataAddress
  \/ DoScopeSpecMetadataAddress
  \/ DoContractSpecMetadataAddress
  \/ DoRecordSpecMetadataAddress
  \/ DoString
  \/ DoParseMetadataAddressFromBech32
  \/ DoAsScopeAddress
  \/ DoAsSessionAddress
  \/ DoAsRecordAddress
  \/ DoAsRecordSpecAddress
  \/ DoAsContractSpecAddress
  \/ DoMustGetAsScopeAddress
  \/ DoMustGetAsSessionAddress
  \/ DoMustGetAsRecordAddress
  \/ DoMustGetAsRecordSpecAddress
  \/ DoMustGetAsContractSpecAddress
  \/ DoScopeSessionIteratorPrefix
  \/ DoScopeRecordIteratorPrefix
  \/ DoContractSpecRecordSpecIteratorPrefix
  \/ DoIsScopeAddress
  \/ DoIsSessionAddress
  \/ DoIsRecordAddress
  \/ DoIsScopeSpecificationAddress
  \/ DoIsContractSpecificationAddress
  \/ DoIsRecordSpecificationAddress
  \/ DoValidateIsScopeAddress
  \/ DoGetDetails
  \/ DoDenom
  \/ DoMetadataAddressFromDenom
  \/ DoConvertHashToAddress

Spec == Init /\ [][Next]_vars

---------------------------------------------------------------------------
(* The layout of an address as the specification tabulates it: for each    *)
(* type tag, the total length and the human-readable prefix.               *)

ScopeTag == ScopeKeyPrefix[1]
SessionTag == SessionKeyPrefix[1]
RecordTag == RecordKeyPrefix[1]
ContractSpecTag == ContractSpecificationKeyPrefix[1]
ScopeSpecTag == ScopeSpecificationKeyPrefix[1]
RecordSpecTag == RecordSpecificationKeyPrefix[1]

Layout(t) ==
  CASE t = ScopeTag -> [len |-> 17, hrp |-> <<"s","c","o","p","e">>]
    [] t = SessionTag -> [len |-> 33, hrp |-> <<"s","e","s","s","i","o","n">>]
    [] t = RecordTag -> [len |-> 33, hrp |-> <<"r","e","c","o","r","d">>]
    [] t = ContractSpecTag
         -> [len |-> 17, hrp |-> <<"c","o","n","t","r","a","c","t","s","p","e","c">>]
    [] t = ScopeSpecTag -> [len |-> 17, hrp |-> <<"s","c","o","p","e","s","p","e","c">>]
    [] t = RecordSpecTag -> [len |-> 33, hrp |-> <<"r","e","c","s","p","e","c">>]

LayoutTags == {ScopeTag, SessionTag, RecordTag, ContractSpecTag, ScopeSpecTag, RecordSpecTag}
ScopeFamily == {ScopeTag, SessionTag, RecordTag}
ContractSpecFamily == {ContractSpecTag, RecordSpecTag}

WellFormed(b) == Len(b) > 0 /\ b[1] \in LayoutTags /\ Len(b) = Layout(b[1]).len

\* The prefix of the type each constructor builds.
PrefixOfOrigin(o) ==
  CASE o = "ScopeMetadataAddress" -> Layout(ScopeTag).hrp
    [] o = "SessionMetadataAddress" -> Layout(SessionTag).hrp
    [] o = "RecordMetadataAddress" -> Layout(RecordTag).hrp
    [] o = "ContractSpecMetadataAddress" -> Layout(ContractSpecTag).hrp
    [] o = "ScopeSpecMetadataAddress" -> Layout(ScopeSpecTag).hrp
    [] o = "RecordSpecMetadataAddress" -> Layout(RecordSpecTag).hrp

\* C1: VerifyMetadataAddressFormat and Validate succeed on a byte sequence
\* exactly when it is non-empty, its first byte is one of the six type tags
\* and its length is the length that tag requires; the bytes of the UUID
\* slots never cause a rejection.
C1_VerifySucceedsIffTagAndLength ==
  (pc = "done" /\ op \in {"VerifyMetadataAddressFormat", "Validate"})
    => ((ret.err = NoErr) <=> WellFormed(ma))

C1_Witness ==
  /\ pc = "done" /\ op = "Validate"
  /\ ret.err = NoErr
  /\ Len(ma) = 33 /\ ma[1] = RecordTag /\ ma[2] # 0

\* C2: for every address a built by a constructor, parsing a.String()
\* returns the bytes of a, the prefix of a's type and no error.
C2_ParseOfStringIsIdentity ==
  (pc = "done" /\ op = "ParseMetadataAddressFromBech32"
     /\ args.kind = "string" /\ origin # "raw")
    => (ret.err = NoErr /\ ret.val = ma /\ ret.str = PrefixOfOrigin(origin))

C2_Witness ==
  /\ pc = "done" /\ op = "ParseMetadataAddressFromBech32"
  /\ args.kind = "string" /\ origin = "RecordSpecMetadataAddress"
  /\ ret.val = ma /\ Len(ma) = 33

\* C3: the parser never accepts a text whose human-readable part differs
\* from the prefix determined by byte 0 of the decoded bytes: on success the
\* returned bytes pass VerifyMetadataAddressFormat and the returned hrp is
\* the one it yields; a correctly checksummed text of valid bytes under
\* another hrp fails with the prefix mismatch and returns the empty address.
C3_ParseAcceptsOnlyOwnPrefix ==
  (pc = "done" /\ op = "ParseMetadataAddressFromBech32")
    => /\ (ret.err = NoErr)
            => /\ VerifyMetadataAddressFormat(ret.val).err = NoErr
               /\ VerifyMetadataAddressFormat(ret.val).hrp = ret.str
               /\ ret.str = Layout(ret.val[1]).hrp
       /\ (args.kind = "encode" /\ ret.err = NoErr) => args.hrp = Layout(ma[1]).hrp
       /\ (args.kind = "encode" /\ WellFormed(ma) /\ args.hrp # Layout(ma[1]).hrp)
            => (ret.err = "PrefixMismatch" /\ ret.val = <<>>)

C3_Witness ==
  /\ pc = "done" /\ op = "ParseMetadataAddressFromBech32"
  /\ args.kind = "encode" /\ WellFormed(ma) /\ args.hrp # Layout(ma[1]).hrp
  /\ ret.err = "PrefixMismatch"

\* C4: VerifyMetadataAddressFormat reports the empty input first, then the
\* unknown type tag whatever the length, then the length mismatch; on
\* success the hrp is the prefix of the tag.
C4_VerifyErrorPrecedence ==
  (pc = "done" /\ op = "VerifyMetadataAddressFormat")
    => /\ (Len(ma) = 0) => ret.err = "Empty"
       /\ (Len(ma) > 0 /\ ma[1] \notin LayoutTags) => ret.err = "UnknownType"
       /\ (Len(ma) > 0 /\ ma[1] \in LayoutTags /\ Len(ma) # Layout(ma[1]).len)
            => ret.err = "LengthMismatch"
       /\ (ret.err = NoErr) => ret.str = Layout(ma[1]).hrp

C4_Witness ==
  /\ pc = "done" /\ op = "VerifyMetadataAddressFormat"
  /\ Len(ma) = 17 /\ ma[1] \notin LayoutTags
  /\ ret.err = "UnknownType"

\* C5: the record and record specification addresses depend on the name
\* only through its trimmed, lower-cased form: every name with the same
\* trimmed lower-cased form builds the same address from the same UUID.
C5_NameOnlyThroughNormalForm ==
  /\ (op = "RecordMetadataAddress" /\ ~ret.panic)
       => \A n \in Names :
            (ToLower(TrimSpace(n)) = ToLower(TrimSpace(args.name)))
              => RecordMetadataAddress(args.uuid, n) = Built(ret.val)
  /\ (op = "RecordSpecMetadataAddress" /\ ~ret.panic)
       => \A n \in Names :
            (ToLower(TrimSpace(n)) = ToLower(TrimSpace(args.name)))
              => RecordSpecMetadataAddress(args.uuid, n) = Built(ret.val)

C5_Witness ==
  /\ op = "RecordMetadataAddress" /\ ~ret.panic
  /\ args.name = <<"F","O","O">>
  /\ ret.val = RecordMetadataAddress(args.uuid, <<" ","f","o","o"," ">>).val
  /\ Len(ret.val) = 33

\* C6: AsScopeAddress of a valid scope address and AsContractSpecAddress of
\* a valid contract specification address return the address itself.
C6_AsOwnTypeIsIdentity ==
  /\ (pc = "done" /\ op = "AsScopeAddress" /\ WellFormed(ma) /\ ma[1] = ScopeTag)
       => (ret.val = ma /\ ret.err = NoErr /\ ~ret.panic)
  /\ (pc = "done" /\ op = "AsContractSpecAddress" /\ WellFormed(ma) /\ ma[1] = ContractSpecTag)
       => (ret.val = ma /\ ret.err = NoErr /\ ~ret.panic)

C6_Witness ==
  /\ pc = "done" /\ op = "AsContractSpecAddress"
  /\ WellFormed(ma) /\ ma[1] = ContractSpecTag /\ ma[2] # 0
  /\ ret.val = ma

\* C7: the As... functions return an error and the empty address when the
\* source is empty or its tag is outside the family: Scope, Session, Record
\* for the scope-side functions, ContractSpec, RecordSpec for the others.
C7_AsRejectsEmptyAndWrongFamily ==
  /\ (pc = "done" /\ op \in {"AsScopeAddress", "AsSessionAddress", "AsRecordAddress"}
        /\ (Len(ma) = 0 \/ ma[1] \notin ScopeFamily))
       => (ret.err # NoErr /\ ret.val = <<>> /\ ~ret.panic)
  /\ (pc = "done" /\ op \in {"AsContractSpecAddress", "AsRecordSpecAddress"}
        /\ (Len(ma) = 0 \/ ma[1] \notin ContractSpecFamily))
       => (ret.err # NoErr /\ ret.val = <<>> /\ ~ret.panic)

C7_Witness ==
  /\ pc = "done" /\ op = "AsScopeAddress"
  /\ WellFormed(ma) /\ ma[1] = ContractSpecTag
  /\ ret.err = "WrongType" /\ ret.val = <<>>

\* C8: for a source address carrying the UUID, an empty or whitespace-only
\* name makes AsRecordAddress and AsRecordSpecAddress return an error; the
\* call never panics.
C8_BlankNameIsAnError ==
  /\ (pc = "done" /\ op = "AsRecordAddress" /\ ScopeUUID(ma).err = NoErr
        /\ Len(TrimSpace(args.name)) = 0)
       => (ret.err # NoErr /\ ~ret.panic)
  /\ (pc = "done" /\ op = "AsRecordSpecAddress" /\ ContractSpecUUID(ma).err = NoErr
        /\ Len(TrimSpace(args.name)) = 0)
       => (ret.err # NoErr /\ ~ret.panic)

\* C9: on a valid address of the scope family the session and record
\* iterator prefixes are the child tag followed by the 16 bytes of the scope
\* UUID, and likewise the record specification prefix on the contract
\* specification family; on the empty address each is its single tag byte.
C9_IteratorPrefixOfValidAddress ==
  /\ (pc = "done" /\ op = "ScopeSessionIteratorPrefix")
       => /\ (WellFormed(ma) /\ ma[1] \in ScopeFamily)
               => (ret.val = <<SessionTag>> \o SubSeq(ma, 2, 17) /\ ret.err = NoErr /\ ~ret.panic)
          /\ (Len(ma) = 0) => (ret.val = <<SessionTag>> /\ ret.err = NoErr /\ ~ret.panic)
  /\ (pc = "done" /\ op = "ScopeRecordIteratorPrefix")
       => /\ (WellFormed(ma) /\ ma[1] \in ScopeFamily)
               => (ret.val = <<RecordTag>> \o SubSeq(ma, 2, 17) /\ ret.err = NoErr /\ ~ret.panic)
          /\ (Len(ma) = 0) => (ret.val = <<RecordTag>> /\ ret.err = NoErr /\ ~ret.panic)
  /\ (pc = "done" /\ op = "ContractSpecRecordSpecIteratorPrefix")
       => /\ (WellFormed(ma) /\ ma[1] \in ContractSpecFamily)
               => (ret.val = <<RecordSpecTag>> \o SubSeq(ma, 2, 17) /\ ret.err = NoErr /\ ~ret.panic)
          /\ (Len(ma) = 0) => (ret.val = <<RecordSpecTag>> /\ ret.err = NoErr /\ ~ret.panic)

C9_Witness ==
  /\ pc = "done" /\ op = "ScopeSessionIteratorPrefix"
  /\ origin = "RecordMetadataAddress" /\ ma[2] # 0
  /\ ret.val = <<SessionTag>> \o SubSeq(ma, 2, 17)

\* C10: the three iterator prefix functions are defined on every non-empty
\* byte sequence whatever its length: with an accepted tag they return the
\* 17 bytes of the child tag and the input's primary UUID bytes, with any
\* other tag the wrong-type error; no input makes them panic.
C10_IteratorPrefixTotal ==
  (pc = "done" /\ Len(ma) > 0
     /\ op \in {"ScopeSessionIteratorPrefix", "ScopeRecordIteratorPrefix",
                "ContractSpecRecordSpecIteratorPrefix"})
    => /\ ~ret.panic
       /\ LET family == IF op = "ContractSpecRecordSpecIteratorPrefix"
                        THEN ContractSpecFamily ELSE ScopeFamily
          IN IF ma[1] \in family
             THEN /\ ret.err = NoErr
                  /\ Len(ret.val) = 17
                  /\ ret.val[1] = (CASE op = "ScopeSessionIteratorPrefix" -> SessionTag
                                     [] op = "ScopeRecordIteratorPrefix" -> RecordTag
                                     [] OTHER -> RecordSpecTag)
                  /\ (Len(ma) >= 17) => SubSeq(ret.val, 2, 17) = SubSeq(ma, 2, 17)
             ELSE ret.err = "WrongType"

\* C16: GetDetails returns for every byte sequence without panicking, and
\* AddressExcess is exactly the bytes beyond expectedLength, which is 33 for
\* a Session-, Record- or RecordSpecification-tagged sequence of at least 33
\* bytes and 17 otherwise; an 18-byte Scope-tagged sequence fails Validate
\* and has its last byte reported as excess.
C16_DetailsTotalWithExcess ==
  (pc = "done" /\ op = "GetDetails")
    => /\ ~ret.panic
       /\ LET expectedLength ==
                IF Len(ma) >= 33 /\ ma[1] \in {SessionTag, RecordTag, RecordSpecTag}
                THEN 33 ELSE 17
          IN ret.details.AddressExcess =
               (IF Len(ma) > expectedLength
                THEN SubSeq(ma, expectedLength + 1, Len(ma)) ELSE <<>>)
       /\ (Len(ma) = 18 /\ ma[1] = ScopeTag)
            => (Validate(ma) # NoErr /\ ret.details.AddressExcess = <<ma[18]>>)

C16_Witness ==
  /\ pc = "done" /\ op = "GetDetails"
  /\ Len(ma) = 34 /\ ma[1] = RecordTag /\ ma[34] # 0
  /\ ret.details.AddressExcess = <<ma[34]>>

\* C17 as stated: for every non-empty byte sequence the Prefix of GetDetails
\* is the type's text prefix when Validate succeeds and the hex of the tag
\* byte whenever Validate fails.
C17_PrefixHexWheneverInvalid ==
  (pc = "done" /\ op = "GetDetails" /\ Len(ma) > 0)
    => ret.details.Prefix = (IF WellFormed(ma) THEN Layout(ma[1]).hrp
                             ELSE EncodeToString(<<ma[1]>>))

\* C17, amended: for every non-empty byte sequence the Prefix of GetDetails
\* is the type's text prefix whenever the tag byte is one of the six tags,
\* whatever the length, and the hex of the tag byte when the tag is unknown.
C17_PrefixByTagAlone ==
  (pc = "done" /\ op = "GetDetails" /\ Len(ma) > 0)
    => ret.details.Prefix = (IF ma[1] \in LayoutTags THEN Layout(ma[1]).hrp
                             ELSE EncodeToString(<<ma[1]>>))

C17_Witness ==
  /\ pc = "done" /\ op = "GetDetails"
  /\ Len(ma) = 18 /\ ma[1] = ScopeTag /\ ~WellFormed(ma)
  /\ ret.details.Prefix = Layout(ScopeTag).hrp

\* C18: the ParentAddress of GetDetails is the Scope address of the primary
\* UUID for a Session- or Record-tagged address, the ContractSpecification
\* address of the primary UUID for a RecordSpecification-tagged address, and
\* empty for every other input: Scope-, ScopeSpecification- or
\* ContractSpecification-tagged, of unknown tag, or empty.
C18_ParentOnlyOfChildren ==
  (pc = "done" /\ op = "GetDetails")
    => LET parent == ret.details.ParentAddress
       IN IF Len(ma) > 0 /\ ma[1] \in {SessionTag, RecordTag}
          THEN (Len(ma) >= 17) => parent = <<ScopeTag>> \o SubSeq(ma, 2, 17)
          ELSE IF Len(ma) > 0 /\ ma[1] = RecordSpecTag
          THEN (Len(ma) >= 17) => parent = <<ContractSpecTag>> \o SubSeq(ma, 2, 17)
          ELSE parent = <<>>

\* C19: MetadataAddressFromDenom of the Denom of a valid address returns the
\* address and no error; it fails as not a denom for every string that does
\* not start with the denom prefix, and with an error wrapping the parser's
\* when the parser does not accept what follows the prefix.
C19_DenomRoundTrip ==
  (pc = "done" /\ op = "MetadataAddressFromDenom")
    => LET prefixed == Len(args.text) >= 4
                         /\ SubSeq(args.text, 1, 4) = <<"n", "f", "t", "/">>
           parsed == ParseMetadataAddressFromBech32(SubSeq(args.text, 5, Len(args.text)))
       IN /\ (args.kind = "denom" /\ WellFormed(ma)) => (ret.val = ma /\ ret.err = NoErr)
          /\ (~prefixed) => (ret.err = "NotADenom" /\ ret.val = <<>>)
          /\ (prefixed /\ parsed.err # NoErr)
               => (ret.err = "InvalidDenom" /\ ret.cause = parsed.err /\ ret.val = <<>>)

C19_Witness ==
  /\ pc = "done" /\ op = "MetadataAddressFromDenom"
  /\ args.kind = "denom" /\ WellFormed(ma) /\ Len(ma) = 33
  /\ ret.val = ma /\ ret.err = NoErr

\* C20: ConvertHashToAddress tests, in this order, the empty type code, the
\* empty hash, the unknown type code, the base64 of the hash and the number
\* of decoded bytes (16 for Scope, ScopeSpec, ContractSpec; 32 for Session,
\* Record, RecordSpec); when it returns no error the result is the type code
\* byte followed by the first 16 or 32 decoded bytes and it passes
\* VerifyMetadataAddressFormat.
C20_HashToAddressOrderAndResult ==
  (pc = "done" /\ op = "ConvertHashToAddress")
    => LET t == args.typeCode[1]
           need == Layout(t).len - 1
           decoded == Payload(ma)
       IN /\ ret.err =
               (IF Len(args.typeCode) = 0 THEN "EmptyTypeCode"
                ELSE IF Len(args.text) = 0 THEN "EmptyHash"
                ELSE IF t \notin LayoutTags THEN "UnknownType"
                ELSE IF args.kind \in {"cut", "spoilt"} THEN "DecodeError"
                ELSE IF Len(decoded) < need THEN "LengthMismatch"
                ELSE NoErr)
          /\ (ret.err = NoErr)
               => /\ ret.val = <<t>> \o SubSeq(decoded, 1, need)
                  /\ VerifyMetadataAddressFormat(ret.val).err = NoErr

C20_Witness ==
  /\ pc = "done" /\ op = "ConvertHashToAddress"
  /\ args.kind = "encoded" /\ args.typeCode = <<RecordTag, 255>>
  /\ Len(ma) = 34 /\ ret.err = NoErr
  /\ ret.val = SubSeq(ma, 1, 33)

---------------------------------------------------------------------------
(* What the specification says of an entry of a list of links *)

IsValidScope(b) == WellFormed(b) /\ b[1] = ScopeTag
\* entry i repeats the address of an earlier entry
Repeats(a, i) == \E j \in 1..(i - 1) : ~a[j].isNil /\ a[j].MDAddr = a[i].MDAddr
\* entry i fails one of the four tests
FailsForScopes(a, i) ==
  \/ a[i].isNil
  \/ Repeats(a, i)
  \/ ~IsValidScope(a[i].MDAddr)
  \/ Len(a[i].AccAddr) = 0
NotAScopeErrors == {"InvalidAddress", "WrongType"}

\* C11: ValidateForScopes returns no error exactly when the list is empty
\* or no entry is nil, every MDAddr is a valid Scope address, no two entries
\* have equal MDAddr, and every entry has a non-empty AccAddr.
C11_ValidateForScopesIff ==
  (pc = "done" /\ op = "ValidateForScopes")
    => ((ret.err = NoErr)
          <=> \/ Len(links) = 0
              \/ /\ \A i \in 1..Len(links) :
                      /\ ~links[i].isNil
                      /\ IsValidScope(links[i].MDAddr)
                      /\ Len(links[i].AccAddr) > 0
                 /\ \A i, j \in 1..Len(links) :
                      (i # j) => links[i].MDAddr # links[j].MDAddr)

C11_Witness ==
  /\ pc = "done" /\ op = "ValidateForScopes"
  /\ Len(links) = 2 /\ links[1].AccAddr = links[2].AccAddr
  /\ ret.err = NoErr

\* C12: ValidateForScopes stops at the first failing entry in list order
\* and reports the first test that entry fails, in the order nil entry,
\* duplicate address, not a scope address, missing account: a second entry
\* with the scope address of the first fails as a duplicate, and a Record
\* address fails as not a scope even when its account is empty too.
C12_FirstFailureInOrder ==
  (pc = "done" /\ op = "ValidateForScopes"
     /\ \E i \in 1..Len(links) : FailsForScopes(links, i))
    => LET k == CHOOSE i \in 1..Len(links) :
                  FailsForScopes(links, i) /\ \A j \in 1..(i - 1) : ~FailsForScopes(links, j)
       IN IF links[k].isNil THEN ret.err = "NilEntry"
          ELSE IF Repeats(links, k) THEN ret.err = "DuplicateAddress"
          ELSE IF ~IsValidScope(links[k].MDAddr) THEN ret.err \in NotAScopeErrors
          ELSE ret.err = "MissingAccount"

C12_Witness ==
  /\ pc = "done" /\ op = "ValidateForScopes"
  /\ Len(links) = 3
  /\ IsValidScope(links[1].MDAddr) /\ Len(links[1].AccAddr) > 0
  /\ links[2].MDAddr = links[1].MDAddr /\ links[2].AccAddr # links[1].AccAddr
  /\ Len(links[3].AccAddr) = 0 /\ ~IsValidScope(links[3].MDAddr)
  /\ ret.err = "DuplicateAddress"

\* C13: GetAccAddrs returns each non-empty account of a non-nil entry once,
\* in the order of its first occurrence in the list, and nothing else.
C13_AccAddrsDistinctFirstSeen ==
  (pc = "done" /\ op = "GetAccAddrs")
    => LET r == ret.list
           first(acc) == CHOOSE i \in 1..Len(links) :
                           /\ ~links[i].isNil /\ links[i].AccAddr = acc
                           /\ \A j \in 1..(i - 1) : links[j].isNil \/ links[j].AccAddr # acc
       IN /\ {r[p] : p \in 1..Len(r)}
               = {links[i].AccAddr : i \in {j \in 1..Len(links) :
                                              ~links[j].isNil /\ Len(links[j].AccAddr) > 0}}
          /\ \A p, q \in 1..Len(r) : (p < q) => (r[p] # r[q] /\ first(r[p]) < first(r[q]))

C13_Witness ==
  /\ pc = "done" /\ op = "GetAccAddrs"
  /\ Len(links) = 3 /\ ~links[1].isNil /\ ~links[3].isNil
  /\ links[1].AccAddr = AccountB /\ links[3].AccAddr = AccountB
  /\ ret.list = <<AccountB, AccountA>>

C15_MDAddrsOfAccountInOrder ==
  (pc = "done" /\ op = "GetMDAddrsForAccAddr")
    => LET hits == {i \in 1..Len(links) :
                      ~links[i].isNil /\ AccStrings[links[i].AccAddr] = args.text}
       IN /\ Len(ret.list) = Cardinality(hits)
          /\ \A i \in hits : ret.list[Cardinality({j \in hits : j <= i})] = links[i].MDAddr

C15_Witness ==
  /\ pc = "done" /\ op = "GetMDAddrsForAccAddr"
  /\ args.text = AccStrings[AccountA] /\ Len(links) = 3
  /\ links[2].AccAddr = AccountB
  /\ ret.list = <<ScopeY, ScopeY>>

\* C23: String returns for every byte sequence without panicking: the empty
\* string exactly for the empty address, for an address that verifies a
\* bech32 text that decodes to the prefix of its type and its bytes, and for
\* every other non-empty address the marked form MetadataAddress{0x.., ..},
\* which is no bech32 text.
C23_StringTotal ==
  (pc = "done" /\ op = "String")
    => /\ ~ret.panic
       /\ (ret.str = <<>>) <=> (Len(ma) = 0)
       /\ WellFormed(ma)
            => DecodeAndConvert(ret.str)
                 = [hrp |-> Layout(ma[1]).hrp, data |-> ma, err |-> NoErr]
       /\ (Len(ma) > 0 /\ ~WellFormed(ma))
            => /\ Len(ret.str) > 16
               /\ SubSeq(ret.str, 1, 16)
                    = <<"M","e","t","a","d","a","t","a","A","d","d","r","e","s","s","{">>
               /\ ret.str[Len(ret.str)] = "}"
               /\ Cardinality({i \in 1..Len(ret.str) : ret.str[i] = "x"}) = Len(ma)
               /\ DecodeAndConvert(ret.str).err # NoErr

C23_Witness ==
  /\ pc = "done" /\ op = "String"
  /\ Len(ma) = 18 /\ ma[1] = ScopeTag
  /\ SubSeq(ret.str, 1, 20)
       = <<"M","e","t","a","d","a","t","a","A","d","d","r","e","s","s","{","0","x","0",",">>

\* The fallible counterpart of the Must... call made.
Counterpart ==
  CASE op = "MustGetAsScopeAddress" -> AsScopeAddress(ma)
    [] op = "MustGetAsSessionAddress" -> AsSessionAddress(ma, args.uuid)
    [] op = "MustGetAsRecordAddress" -> AsRecordAddress(ma, args.name)
    [] op = "MustGetAsRecordSpecAddress" -> AsRecordSpecAddress(ma, args.name)
    [] op = "MustGetAsContractSpecAddress" -> AsContractSpecAddress(ma)

MustOps == {"MustGetAsScopeAddress", "MustGetAsSessionAddress", "MustGetAsRecordAddress",
            "MustGetAsRecordSpecAddress", "MustGetAsContractSpecAddress"}

\* C24: each Must... function panics exactly when its counterpart returns
\* an error, and otherwise returns the address the counterpart returns,
\* never an empty address.
C24_MustPanicsExactlyOnError ==
  (pc = "done" /\ op \in MustOps)
    => /\ ret.panic <=> (Counterpart.err # NoErr)
       /\ ~ret.panic => (ret.val = Counterpart.val /\ Len(ret.val) > 0)

\* C25: the byte fields GetDetails returns account for every byte of the
\* address: AddressPrefix, AddressPrimaryUUID, AddressSecondaryUUID or
\* AddressNameHash, and AddressExcess, one after the other, are the address.
C25_DetailsAccountForEveryByte ==
  (pc = "done" /\ op = "GetDetails")
    => /\ ~ret.panic
       /\ LET d == ret.details
          IN (((d.AddressPrefix \o d.AddressPrimaryUUID) \o d.AddressSecondaryUUID)
                \o d.AddressNameHash) \o d.AddressExcess = ma

\* The addresses the constructors build from the UUIDs and names of the model.
HasName(n) == Len(TrimSpace(n)) > 0
Sessions == {SessionMetadataAddress(u, s).val : u \in UUIDs, s \in UUIDs}
Records == {RecordMetadataAddress(u, n).val : u \in UUIDs, n \in {m \in Names : HasName(m)}}
RecordSpecs ==
  {RecordSpecMetadataAddress(u, n).val : u \in UUIDs, n \in {m \in Names : HasName(m)}}
OneUUIDAddresses ==
  UNION {{ScopeMetadataAddress(u).val, ScopeSpecMetadataAddress(u).val,
          ContractSpecMetadataAddress(u).val} : u \in UUIDs}
AllBuilt == ((Sessions \cup Records) \cup RecordSpecs) \cup OneUUIDAddresses
IsPrefixOf(p, b) == Len(p) <= Len(b) /\ SubSeq(b, 1, Len(p)) = p

\* The addresses of AllBuilt that the prefix p selects are exactly those of
\* children: the members of children with parent UUID u.
SelectsChildren(p, children, u) ==
  {b \in AllBuilt : IsPrefixOf(p, b)} = {b \in children : SubSeq(b, 2, 17) = u}

\* C27: for a valid address of the scope family with scope UUID U, the
\* session prefix is a prefix of every session address derived from it and,
\* among all addresses, of exactly the session addresses of scope U; the
\* record prefix likewise of the record addresses, and on the contract
\* specification family the record specification prefix of exactly the
\* record specifications of that contract specification.
C27_PrefixSelectsExactlyChildren ==
  /\ (pc = "done" /\ op = "ScopeSessionIteratorPrefix"
        /\ WellFormed(ma) /\ ma[1] \in ScopeFamily)
       => /\ \A s \in UUIDs : IsPrefixOf(ret.val, AsSessionAddress(ma, s).val)
          /\ SelectsChildren(ret.val, Sessions, SubSeq(ma, 2, 17))
  /\ (pc = "done" /\ op = "ScopeRecordIteratorPrefix"
        /\ WellFormed(ma) /\ ma[1] \in ScopeFamily)
       => /\ \A n \in Names : HasName(n) => IsPrefixOf(ret.val, AsRecordAddress(ma, n).val)
          /\ SelectsChildren(ret.val, Records, SubSeq(ma, 2, 17))
  /\ (pc = "done" /\ op = "ContractSpecRecordSpecIteratorPrefix"
        /\ WellFormed(ma) /\ ma[1] \in ContractSpecFamily)
       => /\ \A n \in Names :
               HasName(n) => IsPrefixOf(ret.val, AsRecordSpecAddress(ma, n).val)
          /\ SelectsChildren(ret.val, RecordSpecs, SubSeq(ma, 2, 17))

C27_Witness ==
  /\ pc = "done" /\ op = "ScopeRecordIteratorPrefix"
  /\ origin = "SessionMetadataAddress" /\ ma[2] # 0
  /\ IsPrefixOf(ret.val, RecordMetadataAddress(SubSeq(ma, 2, 17), <<"b","a","r">>).val)
  /\ \E b \in Records : ~IsPrefixOf(ret.val, b)
  /\ \A b \in Sessions : ~IsPrefixOf(ret.val, b)

\* The type each derivation function targets.
TargetTag ==
  CASE op = "AsScopeAddress" -> ScopeTag
    [] op = "AsSessionAddress" -> SessionTag
    [] op = "AsRecordAddress" -> RecordTag
    [] op = "AsContractSpecAddress" -> ContractSpecTag
    [] op = "AsRecordSpecAddress" -> RecordSpecTag

AsOps == {"AsScopeAddress", "AsSessionAddress", "AsRecordAddress", "AsContractSpecAddress",
          "AsRecordSpecAddress"}

\* C28: whenever a derivation function returns no error, its result
\* verifies with the prefix of the target type and carries bytes 1..16 of
\* the source as its primary UUID, whether or not the source verifies.
C28_DerivedAddressIsValid ==
  (pc = "done" /\ op \in AsOps /\ ret.err = NoErr /\ ~ret.panic)
    => /\ WellFormed(ret.val) /\ ret.val[1] = TargetTag
       /\ VerifyMetadataAddressFormat(ret.val)
            = [hrp |-> Layout(TargetTag).hrp, err |-> NoErr]
       /\ Len(ma) >= 17 /\ SubSeq(ret.val, 2, 17) = SubSeq(ma, 2, 17)
       /\ PrimaryUUID(ret.val) = [uuid |-> SubSeq(ma, 2, 17), err |-> NoErr]

C28_Witness ==
  /\ pc = "done" /\ op = "AsSessionAddress" /\ ret.err = NoErr /\ ~ret.panic
  /\ Len(ma) = 34 /\ ma[1] = RecordTag /\ ma[2] # 0
  /\ ~WellFormed(ma)
  /\ Len(ret.val) = 33 /\ ret.val[1] = SessionTag

\* The six type predicates and the tag each one answers for.
IsOps == {"IsScopeAddress", "IsSessionAddress", "IsRecordAddress",
          "IsScopeSpecificationAddress", "IsContractSpecificationAddress",
          "IsRecordSpecificationAddress"}
TagOfIs(name) ==
  CASE name = "IsScopeAddress" -> ScopeTag
    [] name = "IsSessionAddress" -> SessionTag
    [] name = "IsRecordAddress" -> RecordTag
    [] name = "IsScopeSpecificationAddress" -> ScopeSpecTag
    [] name = "IsContractSpecificationAddress" -> ContractSpecTag
    [] name = "IsRecordSpecificationAddress" -> RecordSpecTag
\* The predicates that are true of the address b.
TrueOf(b) ==
  {name \in IsOps :
     CASE name = "IsScopeAddress" -> IsScopeAddress(b)
       [] name = "IsSessionAddress" -> IsSessionAddress(b)
       [] name = "IsRecordAddress" -> IsRecordAddress(b)
       [] name = "IsScopeSpecificationAddress" -> IsScopeSpecificationAddress(b)
       [] name = "IsContractSpecificationAddress" -> IsContractSpecificationAddress(b)
       [] name = "IsRecordSpecificationAddress" -> IsRecordSpecificationAddress(b)}

\* C29: of the six type predicates at most one is true of a byte sequence,
\* exactly one if and only if VerifyMetadataAddressFormat succeeds on it
\* (the one of its tag), and ValidateIsScopeAddress returns no error if and
\* only if IsScopeAddress is true.
C29_PredicatesPartitionValid ==
  /\ (pc = "done" /\ op \in IsOps)
       => /\ ret.ok <=> (WellFormed(ma) /\ ma[1] = TagOfIs(op))
          /\ ret.ok <=> (op \in TrueOf(ma))
          /\ Cardinality(TrueOf(ma)) <= 1
          /\ (Cardinality(TrueOf(ma)) = 1) <=> (VerifyMetadataAddressFormat(ma).err = NoErr)
  /\ (pc = "done" /\ op = "ValidateIsScopeAddress")
       => ((ret.err = NoErr) <=> IsScopeAddress(ma))

C29_Witness ==
  /\ pc = "done" /\ op = "IsRecordSpecificationAddress" /\ ret.ok
  /\ TrueOf(ma) = {"IsRecordSpecificationAddress"}
  /\ Len(ma) = 33 /\ ma[2] # 0

\* C22: a MetadataAddress variable that starts empty and is only written
\* by Unmarshal, UnmarshalJSON and UnmarshalYAML, whether they succeed or
\* fail, always is empty or passes VerifyMetadataAddressFormat.
C22_VariableEmptyOrValid ==
  Len(ma) = 0 \/ VerifyMetadataAddressFormat(ma).err = NoErr

DecodeOps == {"Unmarshal", "UnmarshalJSON", "UnmarshalYAML"}

\* C30: a decoder that returns an error leaves the variable it was called
\* on as it was, and Unmarshal returns no error exactly when the data is
\* empty or passes VerifyMetadataAddressFormat.
C30_FailedDecodeKeepsReceiver ==
  [][/\ (op' \in DecodeOps /\ ret'.err # NoErr) => ma' = ma
     /\ (op' = "Unmarshal")
          => ((ret'.err = NoErr)
                <=> (Len(args'.data) = 0
                       \/ VerifyMetadataAddressFormat(args'.data).err = NoErr))]_vars

\* C21: whatever a caller writes into the bytes it was returned by a prefix
\* function (also for the empty address) or by a constructor, the package's
\* key prefixes keep their values and every later call returns what it
\* returns with those values.
C21_OutputsShareNoState ==
  /\ keys = PackageKeys
  /\ (pc = "held" /\ op = "ScopeSessionIteratorPrefix")
       => ret.val = ScopeSessionIteratorPrefix(ma, spare).val
  /\ (pc = "held" /\ op = "ScopeRecordIteratorPrefix")
       => ret.val = ScopeRecordIteratorPrefix(ma, spare).val
  /\ (pc = "held" /\ op = "ContractSpecRecordSpecIteratorPrefix")
       => ret.val = ContractSpecRecordSpecIteratorPrefix(ma, spare).val
  /\ (pc = "held" /\ op = "ScopeMetadataAddress") => ret.val[1] = ScopeTag

\* What the argument list of the config set command says by itself
KnownConfigKeys == UNION {DOMAIN ConfigFiles[name] : name \in DOMAIN ConfigFiles}
PairCount == Len(conf.args) \div 2
HasUnknownKey == \E i \in 1..PairCount : conf.args[2 * i - 1] \notin KnownConfigKeys
HasUnsetValue ==
  \E i \in 1..PairCount : conf.args[2 * i - 1] \in KnownConfigKeys /\ conf.args[2 * i] = "bad"
Updated(name) == \E i \in 1..PairCount : conf.args[2 * i - 1] \in DOMAIN ConfigFiles[name]

\* C26: the config set command is all-or-nothing.  SaveConfigs is called
\* only when every key exists in one of the three configs, every value was
\* set, and ValidateBasic passed for each config that received an update;
\* an unknown key, a value that does not set or a failed validation leaves
\* the files as they were and gives an error; an empty or odd argument list
\* is rejected before the files are loaded; and help is asked for only
\* together with an error.
C26_ConfigSetAllOrNothing ==
  op = "ConfigSetCmd" =>
    LET out == conf.out
        anyIssue == \/ HasUnknownKey
                    \/ HasUnsetValue
                    \/ \E name \in DOMAIN out.validated : out.validated[name] = "failed"
    IN /\ out.saveCalled =>
            /\ Len(conf.args) > 0 /\ Len(conf.args) % 2 = 0
            /\ ~HasUnknownKey
            /\ ~HasUnsetValue
            /\ \A name \in DOMAIN ConfigFiles :
                 Updated(name) => out.validated[name] = "passed" /\ name \in out.saved
            /\ out.err = NoErr
       /\ anyIssue => ~out.saveCalled /\ out.files = ConfigFiles /\ out.err # NoErr
       /\ ~out.saveCalled => out.files = ConfigFiles /\ out.saved = {}
       /\ (Len(conf.args) = 0 \/ Len(conf.args) % 2 # 0) =>
            ~out.loaded /\ out.err # NoErr /\ out.showHelp
       /\ out.showHelp => out.err # NoErr
       /\ out.runE # NoErr => out.showHelp

\* a good pair next to an unknown key: the good pair is not saved either
C26_Witness ==
  /\ op = "ConfigSetCmd"
  /\ conf.env = AllGood
  /\ conf.args = <<"output", "good", "nokey", "good">>
  /\ conf.out.err = "IssuesFound"
  /\ ~conf.out.saveCalled
  /\ conf.out.unknown = {"nokey"}

=============================================================================
